---- MODULE Spec2Model ----
(***************************************************************************)
(* Authentication session manager (hooks/useAuth.tsx, AuthProvider) and    *)
(* the WebView registry / broadcaster (utils/webview-manager.ts,           *)
(* WebViewManager), with the secure store (utils/secure.ts) and the auth   *)
(* API client (utils/api.ts) they call.                                    *)
(*                                                                         *)
(* Every await of the code is one position of a process record (su, lo,    *)
(* fg); what runs between two awaits is one action.  An awaited call that   *)
(* never completes is a behaviour in which its action is never taken.      *)
(* JavaScript null and undefined are the strings Null and Undef; reading   *)
(* a property an object does not have yields Undef (Get); user = null is   *)
(* the record NullUser.                                                    *)
(***************************************************************************)
EXTENDS Integers, Sequences, FiniteSets, TLC

\* ---------------------------------------------------------------- bounds
MaxBroadcasts == 4      \* broadcastSetTokens calls made through the API
MaxFgRuns == 1          \* foreground re-validations started
MaxPinLen == 9          \* longest PIN passed to pinLogin
MaxLogins == 2          \* login results handed back to a WebView
MaxLogouts == 2         \* logout scripts injected into one WebView
MaxMsgs == 3            \* messages the embedded content posts
MaxBatch == 3           \* longest batch passed to processMessageQueue
MaxReports == 2         \* token-verification reports handed to the WebViewManager
MaxDevCalls == 3        \* calls of getDeviceInfo
MaxLoginMsgs == 2       \* messages of a batch that reports logins
MaxInjects == 3         \* executeJavaScript calls made through the API

\* ---------------------------------------------------------------- values
Null == "null"
Undef == "undefined"
NullUser == [name |-> Null, email |-> Null]

WebViews == {"w1", "w2"}

\* utils/secure.ts, SECURE_KEYS: the four keys it defines
SECURE_KEYS ==
  [refreshToken |-> "refreshToken", pinEnabled |-> "pinEnabled",
   lastEmail |-> "lastEmail", deviceId |-> "deviceId"]

\* JavaScript property read: a missing property is undefined
Get(obj, f) == IF f \in DOMAIN obj THEN obj[f] ELSE Undef

\* SECURE_KEYS.accessToken, the key useAuth.tsx reads, writes and deletes
AccessKey == Get(SECURE_KEYS, "accessToken")

StoreKeys == {SECURE_KEYS[k] : k \in DOMAIN SECURE_KEYS} \cup {AccessKey}

Truthy(v) == v \notin {Null, Undef, ""}

VARIABLES
  store,                  \* SecureStore contents, key -> string or Null
  keyOk,                  \* SecureStore accepts the key SECURE_KEYS.accessToken
  user, token, accessToken, hasStoredSession, pinEnabled, ready, initState,
  isCompleted, isInitializedRef, timerArmed,
  appState,
  su,                     \* initializeAuth: position and locals
  lo,                     \* logout: position and locals
  fg,                     \* reInitializeTokenSync: position and locals
  webViewRefs, isWebViewReady, pendingTokenBroadcasts,
  injected,               \* history: scripts injected into each WebView
  bcLog,                  \* history: broadcastSetTokens calls, in call order
  readyEffects,           \* history: times the completion side effects ran
  netCalls,               \* history: checkTokenValid / refreshAccessToken calls issued
  fgRuns,                 \* history: foreground re-validations started
  overtaken,              \* history: a logout finished while a startup call was in flight
  li,                     \* pinLogin / biometricLogin: position, locals, result
  loginLog,               \* history: what the login operations did, in order
  messageQueue, isProcessingQueue, isProcessingLogin,  \* AppWebView state
  bq,                     \* the timer armed by handleMessage and processMessageQueue
  accepted,               \* history: the messages handleMessage took, in arrival order
  batches,                \* history: the arguments of processMessageQueue, in call order
  processed,              \* history: the messages given to processSingleMessage
  reloads,                \* history: reload timers scheduled by AppWebView
  logoutCalls,            \* history: calls of logout made by AppWebView
  sentToWeb,              \* history: what AppWebView injected into its WebView
  tokenVerificationCallbacks,
  tv,                     \* handleTokenVerificationResponse calls awaiting their deletes
  tvLog,                  \* history: verification reports and the callbacks they invoked
  gd,                     \* getOrCreateDeviceId: position and locals of each caller
  generated,              \* history: identifiers generateRealDeviceId produced
  devReturned,            \* history: identifiers getOrCreateDeviceId returned
  issued                  \* history: executeJavaScript calls with throwing WebViews

storeVars == <<store, keyOk>>
sessVars == <<user, token, accessToken, hasStoredSession, pinEnabled>>
initVars == <<ready, initState, isCompleted, isInitializedRef, timerArmed, readyEffects>>
procVars == <<su, lo, fg, appState>>
wvVars == <<webViewRefs, isWebViewReady, pendingTokenBroadcasts, injected, bcLog>>
histVars == <<netCalls, fgRuns, overtaken>>
loginVars == <<li, loginLog>>
bridgeVars == <<messageQueue, isProcessingQueue, isProcessingLogin, bq, accepted, batches,
                processed, reloads, logoutCalls, sentToWeb>>
tvVars == <<tokenVerificationCallbacks, tv, tvLog>>
devVars == <<gd, generated, devReturned>>
injVars == <<issued>>
extVars == <<bridgeVars, tvVars, devVars, injVars>>
vars == <<storeVars, sessVars, initVars, procVars, wvVars, histVars, loginVars, extVars>>

\* ------------------------------------------------------- WebViewManager

\* isReady()
isReady == isWebViewReady /\ Cardinality(webViewRefs) > 0

\* executeJavaScript(jsCode): injectJavaScript on every registered WebView
executeJavaScript(inj, msgs) ==
  [w \in WebViews |-> IF w \in webViewRefs THEN inj[w] \o msgs ELSE inj[w]]

\* the RN_SET_TOKENS script built by broadcastSetTokensImmediate
SetTokensMsg(t) == [kind |-> "RN_SET_TOKENS", id |-> t.id, accessToken |-> t.accessToken,
                    deviceId |-> t.deviceId, user |-> t.user]

\* broadcastSetTokensImmediate for each element of a list, in list order
RECURSIVE ImmediateAll(_)
ImmediateAll(q) ==
  IF q = <<>> THEN <<>> ELSE <<SetTokensMsg(Head(q))>> \o ImmediateAll(Tail(q))

\* the call's arguments plus its position in the sequence of calls
Tuple(at, dev, u) == [id |-> Len(bcLog) + 1, accessToken |-> at, deviceId |-> dev, user |-> u]

\* variant: the call reaches neither a WebView nor the queue
broadcastSetTokensDropped(at, dev, u) ==
  UNCHANGED <<bcLog, pendingTokenBroadcasts, injected, webViewRefs, isWebViewReady>>

\* broadcastSetTokens(accessToken, deviceId, user)
broadcastSetTokens(at, dev, u) ==
  LET t == Tuple(at, dev, u) IN
  /\ bcLog' = Append(bcLog, [t |-> t, queued |-> ~isReady])
  /\ IF ~isReady
       THEN /\ pendingTokenBroadcasts' = Append(pendingTokenBroadcasts, t)
            /\ injected' = injected
       ELSE /\ injected' = executeJavaScript(injected, <<SetTokensMsg(t)>>)
            /\ pendingTokenBroadcasts' = pendingTokenBroadcasts
  /\ UNCHANGED <<webViewRefs, isWebViewReady>>

\* processPendingTokenBroadcasts(): the injections it makes
ProcessPendingMsgs(q) == ImmediateAll(q)

\* variant: the queue is not reset after the forEach
ProcessPendingQueueKept(q) == q

\* processPendingTokenBroadcasts(): this.pendingTokenBroadcasts = []
ProcessPendingQueue(q) == <<>>

\* registerWebView(webView)
RegisterWebView(w) ==
  /\ webViewRefs' = webViewRefs \cup {w}
  /\ UNCHANGED <<isWebViewReady, pendingTokenBroadcasts, injected, bcLog>>

\* unregisterWebView(webView)
UnregisterWebView(w) ==
  /\ webViewRefs' = webViewRefs \ {w}
  /\ UNCHANGED <<isWebViewReady, pendingTokenBroadcasts, injected, bcLog>>

\* setWebViewReady()
SetWebViewReady ==
  /\ isWebViewReady' = TRUE
  /\ injected' = executeJavaScript(injected, ProcessPendingMsgs(pendingTokenBroadcasts))
  /\ pendingTokenBroadcasts' = ProcessPendingQueue(pendingTokenBroadcasts)
  /\ UNCHANGED <<webViewRefs, bcLog>>


\* ---------------------------------------------------------- secure store

\* getSecureItem(key): SecureStore rejects a key it does not accept
GetRejects(key) == key = AccessKey /\ ~keyOk

\* getSecureItem(key).catch(() => null)
GetOrNull(key, fails) == IF fails \/ GetRejects(key) THEN Null ELSE store[key]

\* setSecureItem(key, value): the outcomes of SecureStore.setItemAsync.
\* A key it does not accept is rejected; a value that is not a string
\* (undefined) is outside its contract: rejected, or written as it is.
SetOutcomes(key, v) ==
  IF key = AccessKey /\ ~keyOk THEN {"reject"}
  ELSE IF v = Undef THEN {"reject", "accept"}
  ELSE {"accept"}

\* variant: the delete leaves the key in place
DeleteQuietNoop(st, key) == st

\* deleteSecureItem(key).catch(() => {}) : the store after it
DeleteQuiet(st, key) ==
  IF key = AccessKey /\ ~keyOk THEN st ELSE [st EXCEPT ![key] = Null]

\* deleteSecureItem(key)
DeleteItem(st, key) == [st EXCEPT ![key] = Null]

\* getPinEnabled()
getPinEnabled(st) == st[SECURE_KEYS.pinEnabled] = "1"

\* ------------------------------------------------------------ API client

\* what fetch / the server can answer to POST /auth/check
CheckOutcomes ==
  {[kind |-> "2xx", body |-> [success |-> TRUE, message |-> "ok",
      data |-> [valid |-> v, userEmail |-> "a@b.com", tokenDeviceId |-> "D1"]]] : v \in BOOLEAN}
  \cup {[kind |-> "non2xx"], [kind |-> "transport"]}

\* what fetch / the server can answer to POST /auth/refresh: the body of the
\* declared return type (tokens and user under data), the same fields at the
\* top level of the body, an error status, no response at all
RefreshOutcomes ==
  {[kind |-> "2xx", body |-> [success |-> TRUE, message |-> "ok",
      data |-> [accessToken |-> "AT2", refreshToken |-> "RT1",
                user |-> [id |-> "u1", name |-> "A", role |-> "user"]]]],
   [kind |-> "2xx", body |-> [success |-> TRUE, message |-> "ok",
      accessToken |-> "AT2", refreshToken |-> "RT1",
      user |-> [id |-> "u1", name |-> "A", role |-> "user"]]],
   [kind |-> "non2xx"], [kind |-> "transport"]}

\* postJson's answer as checkTokenValid returns it
checkTokenValid(o) ==
  IF o.kind = "2xx" THEN o.body ELSE [success |-> FALSE, message |-> "check failed"]

\* postJson's answer as refreshAccessToken returns it
refreshAccessToken(o) ==
  IF o.kind = "2xx" THEN o.body ELSE [success |-> FALSE, message |-> "refresh failed"]

\* checkResult.success && checkResult.data.valid
CheckSaysValid(r) == r.success /\ r.data.valid

\* const newAccessToken = refreshResult.accessToken
NewAccessToken(r) == Get(r, "accessToken")

\* const userData = refreshResult.user; reading userData.name throws when
\* userData is undefined
UserDataThrows(r) == "user" \notin DOMAIN r

\* a login result before any login has returned, and no login running
NoResult == [success |-> FALSE, error |-> "none"]
\* what a login operation can change, as it is when the operation is called
SessionAtCall ==
  [refreshToken |-> store[SECURE_KEYS.refreshToken], lastEmail |-> store[SECURE_KEYS.lastEmail],
   token |-> token, accessToken |-> accessToken, user |-> user,
   hasStoredSession |-> hasStoredSession]

IdleLogin ==
  [pc |-> "idle", op |-> "none", pin |-> <<>>, deviceId |-> Null,
   res |-> [success |-> FALSE], result |-> NoResult, before |-> Null]

\* no timer armed and no batch in processMessageQueue; cl is how the
\* completeLogin call made for the message in progress has ended
IdleQueue == [pc |-> "idle", batch |-> <<>>, rest |-> <<>>, cl |-> "none"]

\* AppWebView as mounted: useState([]), useState(false), useState(false)
BridgeIdle ==
  /\ messageQueue = <<>> /\ isProcessingQueue = FALSE /\ isProcessingLogin = FALSE
  /\ bq = IdleQueue
  /\ accepted = <<>> /\ batches = <<>> /\ processed = <<>>
  /\ reloads = 0 /\ logoutCalls = 0 /\ sentToWeb = <<>>

\* the callback AuthProvider registers, and one of some other component
AuthCallback == "handleTokenVerificationResponse"
Callbacks == {AuthCallback, "other"}

\* no verification report yet, cbs the registered callbacks
VerifyIdle(cbs) == tokenVerificationCallbacks = cbs /\ tv = 0 /\ tvLog = <<>>

\* the callers of getOrCreateDeviceId that may run side by side: the startup
\* device phase and the getDeviceInfo request of the embedded content
DeviceCallers == {"initializeAuth", "handleGetDeviceInfo"}

\* no call of getOrCreateDeviceId is running
DeviceIdle ==
  /\ gd = [c \in DeviceCallers |-> [pc |-> "idle", id |-> Null, catch |-> FALSE]]
  /\ generated = 0 /\ devReturned = <<>>

\* executeJavaScript has not been called with a WebView that throws
NoneIssued == issued = <<>>

\* ---------------------------------------------------------------- Init

Init ==
  /\ keyOk \in BOOLEAN
  /\ store \in {st \in [StoreKeys -> {Null, "RT1", "AT1", "1", "D1"}] :
        /\ st[SECURE_KEYS.refreshToken] \in {Null, "RT1"}
        /\ st[AccessKey] \in (IF keyOk THEN {Null, "AT1"} ELSE {Null})
        /\ st[SECURE_KEYS.pinEnabled] \in {Null, "1"}
        /\ st[SECURE_KEYS.deviceId] \in {Null, "D1"}
        /\ st[SECURE_KEYS.lastEmail] = Null}
  /\ user = NullUser /\ token = Null /\ accessToken = Null
  /\ hasStoredSession = FALSE /\ pinEnabled = FALSE /\ ready = FALSE
  /\ initState = [step |-> "starting", error |-> Null, ready |-> FALSE]
  /\ isCompleted = FALSE /\ isInitializedRef = FALSE /\ timerArmed = FALSE
  /\ appState = "active"
  /\ su = [pc |-> "init", deviceId |-> Null, rt |-> Null, at |-> Null, res |-> [success |-> FALSE],
           cause |-> "none", checks |-> 0, refreshes |-> 0]
  /\ lo = [pc |-> "idle", skip |-> FALSE]
  /\ fg = [pc |-> "idle", deviceId |-> Null, rt |-> Null, at |-> Null, res |-> [success |-> FALSE]]
  /\ webViewRefs = {} /\ isWebViewReady = FALSE /\ pendingTokenBroadcasts = <<>>
  /\ injected = [w \in WebViews |-> <<>>]
  /\ bcLog = <<>>
  /\ readyEffects = 0
  /\ netCalls = [check |-> 0, refresh |-> 0]
  /\ fgRuns = 0
  /\ overtaken = FALSE
  /\ li = IdleLogin
  /\ loginLog = <<>>
  /\ BridgeIdle /\ VerifyIdle({}) /\ DeviceIdle /\ NoneIssued

\* ---------------------------------------------------- startup sequence

\* variant: the completion block is not guarded by isCompleted
RunsCompletionUnguarded(rdy, done) == rdy

\* variant: the completion block never runs
RunsCompletionNever(rdy, done) == FALSE

\* updateInitState: if (ready && !isCompleted)
RunsCompletion(rdy, done) == rdy /\ ~done

\* updateInitState(step, error)
updateInitState(step, err) ==
  LET rdy == step \in {"complete", "timeout", "error"} IN
  /\ initState' = [step |-> step, error |-> err, ready |-> rdy]
  /\ IF RunsCompletion(rdy, isCompleted)
       THEN /\ isCompleted' = TRUE
            /\ ready' = TRUE
            /\ isInitializedRef' = TRUE
            /\ readyEffects' = readyEffects + 1
       ELSE UNCHANGED <<isCompleted, ready, isInitializedRef, readyEffects>>

\* the forced-logout block: setHasStoredSession(false), setAccessToken(null),
\* setToken(null), setUser(null)
ClearTokens ==
  /\ hasStoredSession' = FALSE
  /\ accessToken' = Null
  /\ token' = Null
  /\ user' = NullUser
  /\ UNCHANGED pinEnabled

\* useEffect body: registers the token-verification callback, arms the 15 s
\* timer and runs initializeAuth up to its first await
\* (updateInitState('starting'), updateInitState('device'))
StartupBegin ==
  /\ su.pc = "init"
  /\ tokenVerificationCallbacks' = tokenVerificationCallbacks \cup {AuthCallback}
  /\ timerArmed' = TRUE
  /\ updateInitState("device", Null)
  /\ su' = [su EXCEPT !.pc = "device"]
  /\ UNCHANGED <<storeVars, bridgeVars, tv, tvLog, devVars, injVars, loginVars, sessVars, lo, fg, appState, wvVars, histVars>>

\* getDeviceInfo(): the identifier it returns and the store it leaves
DeviceIdOf(st) ==
  IF Truthy(st[SECURE_KEYS.deviceId]) THEN st[SECURE_KEYS.deviceId] ELSE "D1"
StoreWithDevice(st) == [st EXCEPT ![SECURE_KEYS.deviceId] = DeviceIdOf(st)]

\* await getDeviceInfo() returns or throws; then updateInitState('tokens')
StartupDevice ==
  /\ su.pc = "device"
  /\ \E fails \in BOOLEAN :
       IF fails
         THEN /\ su' = [su EXCEPT !.pc = "readRT", !.deviceId = "unknown-device"]
              /\ store' = store
         ELSE /\ su' = [su EXCEPT !.pc = "readRT", !.deviceId = DeviceIdOf(store)]
              /\ store' = StoreWithDevice(store)
  /\ updateInitState("tokens", Null)
  /\ UNCHANGED <<keyOk, extVars, loginVars, sessVars, timerArmed, lo, fg, appState, wvVars, histVars>>

\* storedRefreshToken = await getSecureItem(SECURE_KEYS.refreshToken).catch(...)
StartupReadRT ==
  /\ su.pc = "readRT"
  /\ \E fails \in BOOLEAN :
       su' = [su EXCEPT !.pc = "readAT", !.rt = GetOrNull(SECURE_KEYS.refreshToken, fails)]
  /\ UNCHANGED <<storeVars, extVars, loginVars, sessVars, initVars, lo, fg, appState, wvVars, histVars>>

\* storedAccessToken = await getSecureItem(SECURE_KEYS.accessToken).catch(...)
StartupReadAT ==
  /\ su.pc = "readAT"
  /\ \E fails \in BOOLEAN :
       su' = [su EXCEPT !.pc = "readPin", !.at = GetOrNull(AccessKey, fails)]
  /\ UNCHANGED <<storeVars, extVars, loginVars, sessVars, initVars, lo, fg, appState, wvVars, histVars>>

\* variant: a refresh is attempted whatever was read
ValidationBranchAlways(rt, at) ==
  IF Truthy(at) /\ Truthy(rt) THEN "check" ELSE "refreshOnly"

\* which call the validation step issues for the tokens read
ValidationBranch(rt, at) ==
  IF Truthy(at) /\ Truthy(rt) THEN "check"
  ELSE IF Truthy(rt) THEN "refreshOnly"
  ELSE "fcm"

\* localPinFlag = await getPinEnabled().catch(...); setHasStoredSession,
\* setPinEnabledState, updateInitState('validation'), then the first call
StartupReadPin ==
  /\ su.pc = "readPin"
  /\ \E fails \in BOOLEAN :
       pinEnabled' = (IF fails THEN FALSE ELSE getPinEnabled(store))
  /\ hasStoredSession' = Truthy(su.rt)
  /\ updateInitState("validation", Null)
  /\ LET b == ValidationBranch(su.rt, su.at) IN
       /\ su' = [su EXCEPT !.pc = b,
                          !.checks = @ + (IF b = "check" THEN 1 ELSE 0),
                          !.refreshes = @ + (IF b = "refreshOnly" THEN 1 ELSE 0)]
       /\ netCalls' = [check |-> netCalls.check + (IF b = "check" THEN 1 ELSE 0),
                       refresh |-> netCalls.refresh + (IF b = "refreshOnly" THEN 1 ELSE 0)]
  /\ UNCHANGED <<storeVars, extVars, loginVars, user, token, accessToken, timerArmed, lo, fg, appState,
                 wvVars, fgRuns, overtaken>>

\* variant: an invalid access token is checked again
OnInvalidCheckAgain == "check"

\* the else of if (checkResult.success && checkResult.data.valid): the
\* refreshAccessToken call
OnInvalidCheck == "refresh"

\* await checkTokenValid(storedAccessToken, deviceId) returns
StartupCheckReturns ==
  /\ su.pc = "check"
  /\ \E o \in CheckOutcomes :
       LET r == checkTokenValid(o) IN
       IF CheckSaysValid(r)
         THEN /\ accessToken' = su.at
              /\ token' = su.rt
              /\ user' = [name |-> r.data.userEmail, email |-> r.data.userEmail]
              /\ broadcastSetTokens(su.at, su.deviceId,
                                    [name |-> r.data.userEmail, email |-> r.data.userEmail])
              /\ su' = [su EXCEPT !.pc = "fcm"]
              /\ UNCHANGED netCalls
         ELSE /\ su' = [su EXCEPT !.pc = OnInvalidCheck,
                                !.checks = @ + (IF OnInvalidCheck = "check" THEN 1 ELSE 0),
                                !.refreshes = @ + (IF OnInvalidCheck = "refresh" THEN 1 ELSE 0)]
              /\ netCalls' = [netCalls EXCEPT !.refresh = @ + 1]
              /\ UNCHANGED <<user, token, accessToken, wvVars>>
  /\ UNCHANGED <<storeVars, extVars, loginVars, hasStoredSession, pinEnabled, initVars, lo, fg, appState,
                 fgRuns, overtaken>>

\* await refreshAccessToken(...) returns in the branch entered after an
\* invalid check: on success setSecureItem is called, otherwise the deletes
StartupRefreshReturns ==
  /\ su.pc = "refresh"
  /\ \E o \in RefreshOutcomes :
       LET r == refreshAccessToken(o) IN
       IF r.success
         THEN su' = [su EXCEPT !.pc = "persist", !.res = r]
         ELSE su' = [su EXCEPT !.pc = "forceDel", !.cause = o.kind]
  /\ UNCHANGED <<storeVars, extVars, loginVars, sessVars, initVars, lo, fg, appState, wvVars, histVars>>

\* await setSecureItem(SECURE_KEYS.accessToken, newAccessToken) returns or
\* throws; the state updates and the broadcast after it; an exception goes
\* to catch (refreshError)
StartupPersistDone ==
  /\ su.pc = "persist"
  /\ \E out \in SetOutcomes(AccessKey, NewAccessToken(su.res)) :
       IF out = "reject"
         THEN /\ su' = [su EXCEPT !.pc = "forceDel", !.cause = "exception"]
              /\ UNCHANGED <<store, sessVars, wvVars>>
         ELSE /\ store' = [store EXCEPT ![AccessKey] = NewAccessToken(su.res)]
              /\ accessToken' = NewAccessToken(su.res)
              /\ token' = su.rt
              /\ UNCHANGED <<hasStoredSession, pinEnabled>>
              /\ IF UserDataThrows(su.res)
                   THEN /\ su' = [su EXCEPT !.pc = "forceDel", !.cause = "exception"]
                        /\ UNCHANGED <<user, wvVars>>
                   ELSE /\ user' = [name |-> Get(su.res.user, "name"),
                                    email |-> Get(su.res.user, "id")]
                        /\ broadcastSetTokens(NewAccessToken(su.res), su.deviceId,
                             [name |-> Get(su.res.user, "name"),
                              email |-> Get(su.res.user, "id")])
                        /\ su' = [su EXCEPT !.pc = "fcm"]
  /\ UNCHANGED <<keyOk, extVars, loginVars, initVars, lo, fg, appState, histVars>>

\* await Promise.all([deleteSecureItem(refreshToken).catch, deleteSecureItem(
\* accessToken).catch]) returns; then the session is cleared
StartupForceDel ==
  /\ su.pc = "forceDel"
  /\ store' = DeleteQuiet(DeleteQuiet(store, SECURE_KEYS.refreshToken), AccessKey)
  /\ ClearTokens
  /\ su' = [su EXCEPT !.pc = "fcm"]
  /\ UNCHANGED <<keyOk, extVars, loginVars, initVars, lo, fg, appState, wvVars, histVars>>

\* await refreshAccessToken(...) returns in the branch with a refresh token
\* only: on success setSecureItem is called, otherwise nothing is done
StartupRefreshOnlyReturns ==
  /\ su.pc = "refreshOnly"
  /\ \E o \in RefreshOutcomes :
       LET r == refreshAccessToken(o) IN
       IF r.success
         THEN su' = [su EXCEPT !.pc = "persistOnly", !.res = r]
         ELSE su' = [su EXCEPT !.pc = "fcm", !.cause = o.kind]
  /\ UNCHANGED <<storeVars, extVars, loginVars, sessVars, initVars, lo, fg, appState, wvVars, histVars>>

\* await setSecureItem(...) returns or throws in the refresh-token-only
\* branch; an exception is only logged
StartupPersistOnlyDone ==
  /\ su.pc = "persistOnly"
  /\ su' = [su EXCEPT !.pc = "fcm"]
  /\ \E out \in SetOutcomes(AccessKey, NewAccessToken(su.res)) :
       IF out = "reject"
         THEN UNCHANGED <<store, sessVars, wvVars>>
         ELSE /\ store' = [store EXCEPT ![AccessKey] = NewAccessToken(su.res)]
              /\ accessToken' = NewAccessToken(su.res)
              /\ token' = su.rt
              /\ UNCHANGED <<hasStoredSession, pinEnabled>>
              /\ IF UserDataThrows(su.res)
                   THEN UNCHANGED <<user, wvVars>>
                   ELSE /\ user' = [name |-> Get(su.res.user, "name"),
                                    email |-> Get(su.res.user, "email")]
                        /\ broadcastSetTokens(NewAccessToken(su.res), su.deviceId,
                             [name |-> Get(su.res.user, "name"),
                              email |-> Get(su.res.user, "id")])
  /\ UNCHANGED <<keyOk, extVars, loginVars, initVars, lo, fg, appState, histVars>>

\* await FCMService.initialize() returns or throws; updateInitState('complete')
StartupFcmDone ==
  /\ su.pc = "fcm"
  /\ su' = [su EXCEPT !.pc = "done"]
  /\ updateInitState("complete", Null)
  /\ UNCHANGED <<storeVars, extVars, loginVars, sessVars, timerArmed, lo, fg, appState, wvVars, histVars>>

\* the setTimeout callback: if (!isCompleted) updateInitState('timeout', ...)
WatchdogFire ==
  /\ timerArmed
  /\ timerArmed' = FALSE
  /\ IF ~isCompleted
       THEN updateInitState("timeout", "timeout")
       ELSE UNCHANGED <<initState, isCompleted, ready, isInitializedRef, readyEffects>>
  /\ UNCHANGED <<storeVars, extVars, loginVars, sessVars, procVars, wvVars, histVars>>

\* ------------------------------------------------------------- logout

\* variant: the logout script is injected only when the bridge is ready
broadcastLogoutGated(skip) ==
  /\ injected' = IF isReady
                   THEN executeJavaScript(injected, <<[kind |-> "logout", skipRefresh |-> skip]>>)
                   ELSE injected
  /\ UNCHANGED <<webViewRefs, isWebViewReady, pendingTokenBroadcasts, bcLog>>

\* broadcastLogout(skipRefresh): the logout script on every registered WebView
broadcastLogout(skip) ==
  /\ injected' = executeJavaScript(injected, <<[kind |-> "logout", skipRefresh |-> skip]>>)
  /\ UNCHANGED <<webViewRefs, isWebViewReady, pendingTokenBroadcasts, bcLog>>

\* logout(skipWebViewRefresh) is called (the screens that call it are shown
\* once ready is true) and runs to await getSecureItem(refreshToken)
LogoutCall ==
  /\ lo.pc \in {"idle", "done"}
  /\ ready
  /\ \E skip \in BOOLEAN : lo' = [pc |-> "read", skip |-> skip]
  /\ UNCHANGED <<storeVars, extVars, loginVars, sessVars, initVars, su, fg, appState, wvVars, histVars>>

\* await getSecureItem(refreshToken) returns: with a stored token the server
\* call is issued, without one the finally block starts
LogoutReadDone ==
  /\ lo.pc = "read"
  /\ IF Truthy(store[SECURE_KEYS.refreshToken])
       THEN /\ lo' = [lo EXCEPT !.pc = "server"]
            /\ UNCHANGED wvVars
       ELSE /\ lo' = [lo EXCEPT !.pc = "del1"]
            /\ broadcastLogout(lo.skip)
  /\ UNCHANGED <<storeVars, extVars, loginVars, sessVars, initVars, su, fg, appState, histVars>>

\* await logoutOnServer(stored) returns or throws (error status, transport
\* failure): the catch only logs; the finally block starts
LogoutServerDone ==
  /\ lo.pc = "server"
  /\ \E o \in {"2xx", "non2xx", "transport"} : lo' = [lo EXCEPT !.pc = "del1"]
  /\ broadcastLogout(lo.skip)
  /\ UNCHANGED <<storeVars, extVars, loginVars, sessVars, initVars, su, fg, appState, histVars>>

\* await deleteSecureItem(SECURE_KEYS.refreshToken) returns
LogoutDel1Done ==
  /\ lo.pc = "del1"
  /\ store' = DeleteItem(store, SECURE_KEYS.refreshToken)
  /\ lo' = [lo EXCEPT !.pc = "del2"]
  /\ UNCHANGED <<keyOk, extVars, loginVars, sessVars, initVars, su, fg, appState, wvVars, histVars>>

\* the keys logout's second delete removes
LogoutSecondDelete(st) == DeleteItem(st, SECURE_KEYS.pinEnabled)

\* the state updates that end logout
LogoutClear ==
  /\ user' = NullUser
  /\ token' = Null
  /\ accessToken' = Null
  /\ hasStoredSession' = FALSE
  /\ pinEnabled' = FALSE

\* a call of the startup sequence is in flight
StartupCallInFlight == su.pc \in {"check", "refresh", "refreshOnly"}

\* await deleteSecureItem(SECURE_KEYS.pinEnabled) returns; setUser(null) ...
\* setPinEnabledState(false)
LogoutDel2Done ==
  /\ lo.pc = "del2"
  /\ store' = LogoutSecondDelete(store)
  /\ LogoutClear
  /\ lo' = [lo EXCEPT !.pc = "done"]
  /\ overtaken' = (overtaken \/ (StartupCallInFlight /\ isCompleted))
  /\ UNCHANGED <<keyOk, extVars, loginVars, initVars, su, fg, appState, wvVars, netCalls, fgRuns>>

\* ------------------------------------------- foreground re-validation

\* handleAppStateChange(next) with next inactive or background
AppBackground ==
  /\ appState = "active"
  /\ appState' = "background"
  /\ UNCHANGED <<storeVars, extVars, loginVars, sessVars, initVars, su, lo, fg, wvVars, histVars>>

\* variant: every return to active starts a re-validation
startedOnActive == TRUE

\* the last two conjuncts of handleAppStateChange's condition:
\* isInitializedRef.current && ready
startedOnceReady == isInitializedRef /\ ready

\* handleAppStateChange('active') after background: reInitializeTokenSync is
\* started when isInitializedRef.current && ready.  One re-validation runs
\* at a time here, MaxFgRuns of them in all.
AppForeground ==
  /\ appState = "background"
  /\ appState' = "active"
  /\ IF startedOnceReady
       THEN /\ fg.pc \in {"idle", "done"}
            /\ fgRuns < MaxFgRuns
            /\ fg' = [fg EXCEPT !.pc = "device"]
            /\ fgRuns' = fgRuns + 1
       ELSE UNCHANGED <<fg, fgRuns>>
  /\ UNCHANGED <<storeVars, extVars, loginVars, sessVars, initVars, su, lo, wvVars, netCalls, overtaken>>

\* await getDeviceInfo() returns, or throws to the outer catch
FgDevice ==
  /\ fg.pc = "device"
  /\ \E fails \in BOOLEAN :
       IF fails
         THEN /\ fg' = [fg EXCEPT !.pc = "done"]
              /\ store' = store
         ELSE /\ fg' = [fg EXCEPT !.pc = "readRT", !.deviceId = DeviceIdOf(store)]
              /\ store' = StoreWithDevice(store)
  /\ UNCHANGED <<keyOk, extVars, loginVars, sessVars, initVars, su, lo, appState, wvVars, histVars>>

\* storedRefreshToken = await getSecureItem(refreshToken).catch(...)
FgReadRT ==
  /\ fg.pc = "readRT"
  /\ \E fails \in BOOLEAN :
       fg' = [fg EXCEPT !.pc = "readAT", !.rt = GetOrNull(SECURE_KEYS.refreshToken, fails)]
  /\ UNCHANGED <<storeVars, extVars, loginVars, sessVars, initVars, su, lo, appState, wvVars, histVars>>

\* storedAccessToken = await getSecureItem(accessToken).catch(...); without
\* both tokens the function returns, with both checkTokenValid is called
FgReadAT ==
  /\ fg.pc = "readAT"
  /\ \E fails \in BOOLEAN :
       LET at == GetOrNull(AccessKey, fails) IN
       IF Truthy(at) /\ Truthy(fg.rt)
         THEN /\ fg' = [fg EXCEPT !.pc = "check", !.at = at]
              /\ netCalls' = [netCalls EXCEPT !.check = @ + 1]
         ELSE /\ fg' = [fg EXCEPT !.pc = "done", !.at = at]
              /\ UNCHANGED netCalls
  /\ UNCHANGED <<storeVars, extVars, loginVars, sessVars, initVars, su, lo, appState, wvVars, fgRuns, overtaken>>

\* await checkTokenValid(...) returns: a valid token is broadcast, otherwise
\* refreshAccessToken is called
FgCheckReturns ==
  /\ fg.pc = "check"
  /\ \E o \in CheckOutcomes :
       LET r == checkTokenValid(o) IN
       IF CheckSaysValid(r)
         THEN /\ broadcastSetTokens(fg.at, fg.deviceId,
                                    [name |-> r.data.userEmail, email |-> r.data.userEmail])
              /\ fg' = [fg EXCEPT !.pc = "done"]
              /\ UNCHANGED netCalls
         ELSE /\ fg' = [fg EXCEPT !.pc = "refresh"]
              /\ netCalls' = [netCalls EXCEPT !.refresh = @ + 1]
              /\ UNCHANGED wvVars
  /\ UNCHANGED <<storeVars, extVars, loginVars, sessVars, initVars, su, lo, appState, fgRuns, overtaken>>

\* await refreshAccessToken(...) returns: on success setSecureItem is
\* called, a failure is ignored
FgRefreshReturns ==
  /\ fg.pc = "refresh"
  /\ \E o \in RefreshOutcomes :
       LET r == refreshAccessToken(o) IN
       IF r.success
         THEN fg' = [fg EXCEPT !.pc = "persist", !.res = r]
         ELSE fg' = [fg EXCEPT !.pc = "done"]
  /\ UNCHANGED <<storeVars, extVars, loginVars, sessVars, initVars, su, lo, appState, wvVars, histVars>>

\* await setSecureItem(accessToken, newAccessToken) returns or throws; then
\* setAccessToken, setUser and the broadcast; an exception is only logged
FgPersistDone ==
  /\ fg.pc = "persist"
  /\ fg' = [fg EXCEPT !.pc = "done"]
  /\ \E out \in SetOutcomes(AccessKey, NewAccessToken(fg.res)) :
       IF out = "reject"
         THEN UNCHANGED <<store, sessVars, wvVars>>
         ELSE /\ store' = [store EXCEPT ![AccessKey] = NewAccessToken(fg.res)]
              /\ accessToken' = NewAccessToken(fg.res)
              /\ UNCHANGED <<token, hasStoredSession, pinEnabled>>
              /\ IF UserDataThrows(fg.res)
                   THEN UNCHANGED <<user, wvVars>>
                   ELSE /\ user' = [name |-> Get(fg.res.user, "name"),
                                    email |-> Get(fg.res.user, "email")]
                        /\ broadcastSetTokens(NewAccessToken(fg.res), fg.deviceId,
                             [name |-> Get(fg.res.user, "name"),
                              email |-> Get(fg.res.user, "email")])
  /\ UNCHANGED <<keyOk, extVars, loginVars, initVars, su, lo, appState, histVars>>

\* ------------------------------------------------- pinLogin, biometricLogin

Digits == {"0", "1", "2", "3", "4", "5", "6", "7", "8", "9"}

\* variant: the digits test accepts every string
DigitsOnlyAny(pin) == TRUE

\* /^\d+$/.test(pin), pin a sequence of characters
DigitsOnly(pin) == Len(pin) > 0 /\ \A i \in 1..Len(pin) : pin[i] \in Digits

\* validatePin(pin)
validatePin(pin) ==
  IF pin = <<>> \/ Len(pin) < 4 \/ Len(pin) > 8
    THEN [isValid |-> FALSE, message |-> "PIN must be 4-8 characters"]
  ELSE IF ~DigitsOnly(pin)
    THEN [isValid |-> FALSE, message |-> "PIN must be digits"]
  ELSE [isValid |-> TRUE, message |-> Undef]

\* hashPin(pin): the SHA-256 digest, or simpleHash(pin) when the digest is
\* unavailable or throws
hashPin(pin, digestWorks) == [alg |-> IF digestWorks THEN "sha256" ELSE "simple", of |-> pin]

\* variant: the server's empty detail is used as the message
ApiErrorMessageBare(detail, path) == detail

\* postJson: new AuthApiError(detail || `API ${path} failed`, ...)
ApiErrorMessage(detail, path) == IF detail # "" THEN detail ELSE "API " \o path \o " failed"

\* what fetch / the server can answer to POST /auth/pin-login and POST
\* /auth/biometric-login: the contract body, a body without user, a body
\* without refreshToken, an error status with or without a message, no
\* response at all
LoginOutcomes ==
  {[kind |-> "2xx", body |-> [accessToken |-> "AT3", refreshToken |-> "RT2", expiresAt |-> 1,
                              user |-> [name |-> "A", email |-> "a@b.com"]]],
   [kind |-> "2xx", body |-> [accessToken |-> "AT3", refreshToken |-> "RT2", expiresAt |-> 1]],
   [kind |-> "2xx", body |-> [accessToken |-> "AT3", expiresAt |-> 1,
                              user |-> [name |-> "A", email |-> "a@b.com"]]],
   [kind |-> "non2xx", detail |-> "wrong credentials"], [kind |-> "non2xx", detail |-> ""],
   [kind |-> "transport"]}

\* the message of the error postJson throws for an answer that is not 2xx
PostJsonError(o, path) ==
  IF o.kind = "non2xx" THEN ApiErrorMessage(o.detail, path) ELSE "Network request failed"

\* catch (error) { return { success: false, error: error.message } }
Failure(msg) == [success |-> FALSE, error |-> msg]

\* return { success: true, user, accessToken, refreshToken, expiresAt }
Success(r) ==
  [success |-> TRUE, error |-> Undef, accessToken |-> Get(r, "accessToken"),
   refreshToken |-> Get(r, "refreshToken")]

\* result.user, a missing user read as no user
UserOf(r) == IF "user" \in DOMAIN r THEN r.user ELSE NullUser

\* variant: the answer's email is not looked at
EmailOfNone(r) == Undef

\* result.user?.email
EmailOf(r) == IF "user" \in DOMAIN r THEN Get(r.user, "email") ELSE Undef

\* the PINs pinLogin is called with: the digit strings of every length up to
\* MaxPinLen, the same with a letter at the end, and three named ones
PinInputs ==
  {[i \in 1..n |-> "1"] : n \in 0..MaxPinLen}
  \cup {[i \in 1..n |-> IF i = n THEN "a" ELSE "1"] : n \in 1..MaxPinLen}
  \cup {<<"1", "2", "3">>, <<"a", "b", "c", "d", "e", "f">>, <<"1", "2", "3", "4", "5", "6">>}

\* fewer than MaxLogins results have been injected into every WebView
LoginsLeft == \A w \in WebViews : Len(injected[w]) < MaxLogins

\* the login operation returns result to its caller
LoginReturns(result) == li' = [li EXCEPT !.pc = "done", !.result = result]

\* pinLogin(pin, deviceId, platform) is called and runs loginWithPinOnServer
\* to its first await: validatePin throws for a malformed PIN, otherwise
\* hashPin is awaited
PinLoginCall ==
  /\ ready
  /\ li.pc \in {"idle", "done"}
  /\ LoginsLeft
  /\ \E pin \in PinInputs, dev \in {"D1", Undef} :
       LET d == IF Truthy(dev) THEN dev ELSE "unknown-device"
           v == validatePin(pin)
           c == [IdleLogin EXCEPT !.op = "pin", !.pin = pin, !.deviceId = d,
                                  !.before = SessionAtCall]
       IN IF v.isValid
            THEN /\ li' = [c EXCEPT !.pc = "hash"]
                 /\ loginLog' = <<"validatePin">>
            ELSE /\ li' = [c EXCEPT !.pc = "done", !.result = Failure(v.message)]
                 /\ loginLog' = <<"validatePin">>
  /\ UNCHANGED <<storeVars, extVars, sessVars, initVars, procVars, wvVars, histVars>>

\* await hashPin(pin) returns; postJson('/auth/pin-login', ...) is issued
PinHashDone ==
  /\ li.pc = "hash"
  /\ \E digestWorks \in BOOLEAN :
       /\ li' = [li EXCEPT !.pc = "server"]
       /\ loginLog' = loginLog \o <<hashPin(li.pin, digestWorks).alg, "POST /auth/pin-login">>
  /\ UNCHANGED <<storeVars, extVars, sessVars, initVars, procVars, wvVars, histVars>>

\* await postJson('/auth/pin-login') returns or throws; with an answer
\* setSecureItem(SECURE_KEYS.refreshToken, result.refreshToken) is awaited
PinServerReturns ==
  /\ li.pc = "server"
  /\ \E o \in LoginOutcomes :
       IF o.kind = "2xx"
         THEN li' = [li EXCEPT !.pc = "persist", !.res = o.body]
         ELSE LoginReturns(Failure(PostJsonError(o, "/auth/pin-login")))
  /\ UNCHANGED <<storeVars, extVars, sessVars, initVars, procVars, wvVars, histVars, loginLog>>

\* biometricLogin() is called and awaits getDeviceInfo()
BioLoginCall ==
  /\ ready
  /\ li.pc \in {"idle", "done"}
  /\ LoginsLeft
  /\ li' = [IdleLogin EXCEPT !.op = "bio", !.pc = "bdevice", !.before = SessionAtCall]
  /\ loginLog' = <<>>
  /\ UNCHANGED <<storeVars, extVars, sessVars, initVars, procVars, wvVars, histVars>>

\* await getDeviceInfo() returns or throws; fetchLoginOptionsWithDeviceId is
\* awaited
BioDeviceDone ==
  /\ li.pc = "bdevice"
  /\ \E fails \in BOOLEAN :
       IF fails
         THEN /\ LoginReturns(Failure("secure store unavailable"))
              /\ UNCHANGED <<store, loginLog>>
         ELSE /\ li' = [li EXCEPT !.pc = "options", !.deviceId = DeviceIdOf(store)]
              /\ store' = StoreWithDevice(store)
              /\ loginLog' = Append(loginLog, "POST /auth/login-options-by-device")
  /\ UNCHANGED <<keyOk, extVars, sessVars, initVars, procVars, wvVars, histVars>>

\* what the login-options lookup can answer: data with hasPasskey, a body
\* without data, an error status, no response
OptionsOutcomes ==
  {[kind |-> "2xx", body |-> [data |-> [hasPin |-> TRUE, hasPasskey |-> h]]] : h \in BOOLEAN}
  \cup {[kind |-> "2xx", body |-> [success |-> FALSE]], [kind |-> "non2xx"], [kind |-> "transport"]}

\* what a 2xx answer of the lookup says about a registered passkey
OptionsAnswer(o) ==
  IF "data" \in DOMAIN o.body
    THEN (IF o.body.data.hasPasskey THEN "passkey" ELSE "no passkey")
    ELSE "no data"

\* variant: the prompt is shown whatever the lookup answered
HasPasskeyAssumed(o) == TRUE

\* loginOptions?.hasPasskey, loginOptions = response.data
HasPasskey(o) == "data" \in DOMAIN o.body /\ o.body.data.hasPasskey

\* await fetchLoginOptionsWithDeviceId returns or throws: a failed lookup
\* and a device without passkey return; otherwise (Platform.OS is a
\* non-empty string on a device) authenticateAsync is awaited
BioOptionsDone ==
  /\ li.pc = "options"
  /\ \E o \in OptionsOutcomes :
       IF o.kind # "2xx"
         THEN /\ LoginReturns(Failure("device information unavailable"))
              /\ loginLog' = Append(loginLog, "lookup failed")
       ELSE IF ~HasPasskey(o)
         THEN /\ LoginReturns(Failure("biometric login not registered"))
              /\ loginLog' = Append(loginLog, OptionsAnswer(o))
       ELSE /\ li' = [li EXCEPT !.pc = "prompt"]
            /\ loginLog' = loginLog \o <<OptionsAnswer(o), "prompt">>
  /\ UNCHANGED <<storeVars, extVars, sessVars, initVars, procVars, wvVars, histVars>>

\* await LocalAuthentication.authenticateAsync returns or throws; on
\* success biometricLoginOnServer is awaited
BioPromptDone ==
  /\ li.pc = "prompt"
  /\ \E r \in {"success", "cancelled", "throws"} :
       IF r = "success"
         THEN /\ li' = [li EXCEPT !.pc = "bserver"]
              /\ loginLog' = loginLog \o <<"approved", "POST /auth/biometric-login">>
       ELSE IF r = "cancelled"
         THEN LoginReturns(Failure("biometric cancelled or failed")) /\ UNCHANGED loginLog
       ELSE LoginReturns(Failure("authentication unavailable")) /\ UNCHANGED loginLog
  /\ UNCHANGED <<storeVars, extVars, sessVars, initVars, procVars, wvVars, histVars>>

\* await biometricLoginOnServer returns or throws; a refreshToken that is not
\* a string throws; otherwise setSecureItem(refreshToken) is awaited
BioServerReturns ==
  /\ li.pc = "bserver"
  /\ \E o \in LoginOutcomes :
       IF o.kind # "2xx"
         THEN LoginReturns(Failure(PostJsonError(o, "/auth/biometric-login")))
              /\ UNCHANGED loginLog
       ELSE IF Get(o.body, "refreshToken") = Undef
         THEN LoginReturns(Failure("refreshToken is not a string"))
              /\ loginLog' = Append(loginLog, "answered")
       ELSE /\ li' = [li EXCEPT !.pc = "persist", !.res = o.body]
            /\ loginLog' = Append(loginLog, "answered")
  /\ UNCHANGED <<storeVars, extVars, sessVars, initVars, procVars, wvVars, histVars>>

\* PinUnlockScreen.onSubmit after a successful pinLogin: for a request that
\* came from a WebView the result is injected into that WebView
\* (webViewHandlePinLoginResult, sendToWeb), otherwise the router goes home;
\* AppWebView.handleBiometricLoginRequest does the same with sendToWeb
CallerContinues(r) ==
  \E w \in webViewRefs \cup {"none"} :
    /\ injected' = [x \in WebViews |->
         IF x = w THEN Append(injected[x], [kind |-> "loginSuccess", accessToken |-> Get(r, "accessToken")])
         ELSE injected[x]]
    /\ UNCHANGED <<webViewRefs, isWebViewReady, pendingTokenBroadcasts, bcLog>>

\* await setSecureItem(SECURE_KEYS.refreshToken, ...) returns or throws;
\* setToken, setAccessToken, setUser, setHasStoredSession(true); then
\* setLastEmail is awaited when the answer has user.email, otherwise the
\* operation returns success
LoginPersistDone ==
  /\ li.pc = "persist"
  /\ \E out \in SetOutcomes(SECURE_KEYS.refreshToken, Get(li.res, "refreshToken")) \cup {"reject"} :
       IF out = "reject"
         THEN /\ LoginReturns(Failure("secure store unavailable"))
              /\ UNCHANGED <<store, sessVars, wvVars, loginLog>>
         ELSE /\ store' = [store EXCEPT ![SECURE_KEYS.refreshToken] = Get(li.res, "refreshToken")]
              /\ token' = Get(li.res, "refreshToken")
              /\ accessToken' = Get(li.res, "accessToken")
              /\ user' = UserOf(li.res)
              /\ hasStoredSession' = TRUE
              /\ UNCHANGED pinEnabled
              /\ loginLog' = Append(loginLog, "persist refreshToken")
              /\ IF Truthy(EmailOf(li.res))
                   THEN li' = [li EXCEPT !.pc = "email"] /\ UNCHANGED wvVars
                   ELSE LoginReturns(Success(li.res)) /\ CallerContinues(li.res)
  /\ UNCHANGED <<keyOk, extVars, initVars, procVars, histVars>>

\* await setLastEmail(result.user.email) returns or throws; FCMService
\* .initialize is started and the operation returns success
LoginEmailDone ==
  /\ li.pc = "email"
  /\ \E out \in {"accept", "reject"} :
       IF out = "reject"
         THEN /\ LoginReturns(Failure("secure store unavailable"))
              /\ UNCHANGED <<store, wvVars, loginLog>>
         ELSE /\ store' = [store EXCEPT ![SECURE_KEYS.lastEmail] = EmailOf(li.res)]
              /\ loginLog' = Append(loginLog, "persist lastEmail")
              /\ LoginReturns(Success(li.res))
              /\ CallerContinues(li.res)
  /\ UNCHANGED <<keyOk, extVars, sessVars, initVars, procVars, histVars>>

\* the state a startup on a store without tokens ends in, with or without a
\* last-used email left by an earlier login, and with or without a WebView
InitLogin ==
  /\ keyOk = FALSE
  /\ store \in {st \in [StoreKeys -> {Null, "1", "D1", "a@b.com"}] :
        /\ st[SECURE_KEYS.refreshToken] = Null
        /\ st[AccessKey] = Null
        /\ st[SECURE_KEYS.pinEnabled] = "1"
        /\ st[SECURE_KEYS.deviceId] \in {Null, "D1"}
        /\ st[SECURE_KEYS.lastEmail] \in {Null, "a@b.com"}}
  /\ user = NullUser /\ token = Null /\ accessToken = Null
  /\ hasStoredSession = FALSE /\ pinEnabled = getPinEnabled(store) /\ ready = TRUE
  /\ initState = [step |-> "complete", error |-> Null, ready |-> TRUE]
  /\ isCompleted = TRUE /\ isInitializedRef = TRUE /\ timerArmed = TRUE
  /\ appState = "active"
  /\ su = [pc |-> "done", deviceId |-> IF store[SECURE_KEYS.deviceId] = Null
                                          THEN "unknown-device" ELSE "D1",
           rt |-> Null, at |-> Null, res |-> [success |-> FALSE],
           cause |-> "none", checks |-> 0, refreshes |-> 0]
  /\ lo = [pc |-> "idle", skip |-> FALSE]
  /\ fg = [pc |-> "idle", deviceId |-> Null, rt |-> Null, at |-> Null, res |-> [success |-> FALSE]]
  /\ webViewRefs \in {{}, {"w1"}} /\ isWebViewReady = FALSE /\ pendingTokenBroadcasts = <<>>
  /\ injected = [w \in WebViews |-> <<>>]
  /\ bcLog = <<>>
  /\ readyEffects = 1
  /\ netCalls = [check |-> 0, refresh |-> 0]
  /\ fgRuns = 0
  /\ overtaken = FALSE
  /\ li = IdleLogin
  /\ loginLog = <<>>
  /\ BridgeIdle /\ VerifyIdle({AuthCallback}) /\ DeviceIdle /\ NoneIssued

PinLogin == PinLoginCall \/ PinHashDone \/ PinServerReturns

BiometricLogin ==
  BioLoginCall \/ BioDeviceDone \/ BioOptionsDone \/ BioPromptDone \/ BioServerReturns

NextLogin == PinLogin \/ BiometricLogin \/ LoginPersistDone \/ LoginEmailDone

\* the login operations of the session manager, called one at a time on a
\* started application without a session; SecureStore operations may fail
SpecLogin == InitLogin /\ [][NextLogin]_vars

\* ------------------------------------------- AppWebView: inbound messages

\* the messages the embedded content posts, as JSON.parse returns them
Inbound ==
  {[type |-> "pinLoginFailure", success |-> FALSE],
   [type |-> "logout"],
   [type |-> "loginSuccess", success |-> TRUE, refreshToken |-> "RT2", accessToken |-> "AT3",
    user |-> [name |-> "A", email |-> "a@b.com"]],
   [type |-> "getDeviceInfo"]}

\* msg.success === b
SuccessIs(e, b) == "success" \in DOMAIN e.m /\ e.m.success = b

\* messages.some(msg => one of the three failure types with success false)
hasLoginFailure(messages) ==
  \E i \in 1..Len(messages) :
    /\ messages[i].m.type \in {"loginFailure", "pinLoginFailure", "biometricLoginFailure"}
    /\ SuccessIs(messages[i], FALSE)

\* messages.some(msg => msg.type === 'getDeviceInfo')
hasDeviceInfoRequest(messages) ==
  \E i \in 1..Len(messages) : messages[i].m.type = "getDeviceInfo"

\* const shouldSkipRefresh = true;//hasLoginFailure || hasDeviceInfoRequest;
shouldSkipRefresh(messages) == TRUE

\* variant: the logout messages stay in the batch
filteredMessagesKept(messages) == messages

\* hasLoginFailure ? messages.filter(msg => msg.type !== 'logout') : messages
filteredMessages(messages) ==
  IF hasLoginFailure(messages)
    THEN SelectSeq(messages, LAMBDA e : e.m.type # "logout")
    ELSE messages

\* the user handleLoginSuccess builds from parsed.user
LoginUser(m) ==
  IF "user" \in DOMAIN m /\ Truthy(Get(m.user, "email"))
    THEN [name |-> IF Truthy(Get(m.user, "name")) THEN m.user.name ELSE "User",
          email |-> m.user.email]
    ELSE [name |-> "User", email |-> "user@example.com"]

\* parsed.user?.email
ParsedEmail(m) == IF "user" \in DOMAIN m THEN Get(m.user, "email") ELSE Undef

\* handleMessage(event) for a message with data that parses: the message is
\* appended to messageQueue; when no queue is being processed the 50 ms
\* timer is armed with newQueue.  The component has re-rendered since the
\* last state update, so messageQueue and isProcessingQueue are current.
\* The event is delivered between two tasks, so not while the for loop
\* goes from one message to the next.
HandleMessage ==
  /\ Len(accepted) < MaxMsgs
  /\ bq.pc # "next"
  /\ \E m \in Inbound :
       LET e == [id |-> Len(accepted) + 1, m |-> m]
           newQueue == Append(messageQueue, e)
       IN /\ messageQueue' = newQueue
          /\ accepted' = Append(accepted, [id |-> e.id, m |-> m, at |-> bq.pc,
                                           due |-> Len(batches) + 1])
          /\ IF ~isProcessingQueue
               THEN /\ isProcessingQueue' = TRUE
                    /\ bq' = [pc |-> "timer", batch |-> newQueue, rest |-> <<>>, cl |-> "none"]
               ELSE UNCHANGED <<isProcessingQueue, bq>>
  /\ UNCHANGED <<isProcessingLogin, batches, processed, reloads, logoutCalls, sentToWeb>>
  /\ UNCHANGED <<storeVars, sessVars, initVars, procVars, wvVars, histVars, loginVars, tvVars, devVars, injVars>>

\* the timer fires: processMessageQueue(newQueue) runs to its for loop
TimerFires ==
  /\ bq.pc = "timer"
  /\ batches' = Append(batches, bq.batch)
  /\ bq' = [bq EXCEPT !.pc = "next", !.rest = filteredMessages(bq.batch)]
  /\ UNCHANGED <<messageQueue, isProcessingQueue, isProcessingLogin, accepted, processed,
                 reloads, logoutCalls, sentToWeb>>
  /\ UNCHANGED <<storeVars, sessVars, initVars, procVars, wvVars, histVars, loginVars, tvVars, devVars, injVars>>

\* handleLoginSuccess leaves through its finally block; the for loop goes on
LoginSuccessEnds ==
  /\ isProcessingLogin' = FALSE
  /\ bq' = [bq EXCEPT !.pc = "next", !.rest = Tail(bq.rest)]

\* handleLoginSuccess after completeLogin returned: the login script is
\* injected into this WebView
LoginSuccessInjects(m) ==
  /\ sentToWeb' = Append(sentToWeb, [type |-> "loginSuccess", accessToken |-> Get(m, "accessToken")])
  /\ LoginSuccessEnds

\* await processSingleMessage(message) for the next message of the batch:
\* the switch on parsed.type, each handler up to its first await
ProcessSingle ==
  /\ bq.pc = "next" /\ bq.rest # <<>>
  /\ LET e == Head(bq.rest)
         returns == bq' = [bq EXCEPT !.rest = Tail(bq.rest), !.cl = "none"]
         awaits(pc) == bq' = [bq EXCEPT !.pc = pc, !.cl = "none"]
     IN
     /\ processed' = Append(processed, [id |-> e.id, type |-> e.m.type, batch |-> Len(batches)])
     /\ IF e.m.type = "getDeviceInfo"
          THEN /\ awaits("device")
               /\ UNCHANGED <<lo, logoutCalls, isProcessingLogin, sentToWeb>>
        ELSE IF e.m.type = "logout"
          THEN IF Get(e.m, "reason") = "loginFailure"
                 THEN /\ returns
                      /\ UNCHANGED <<lo, logoutCalls, isProcessingLogin, sentToWeb>>
                 ELSE /\ awaits("logout")
                      /\ lo' = [pc |-> "read", skip |-> FALSE]
                      /\ logoutCalls' = logoutCalls + 1
                      /\ UNCHANGED <<isProcessingLogin, sentToWeb>>
        ELSE IF e.m.type \in {"loginSuccess", "pinLoginSuccess", "biometricLoginSuccess"}
                /\ (SuccessIs(e, TRUE) \/ e.m.type = "loginSuccess")
          THEN /\ UNCHANGED <<lo, logoutCalls>>
               /\ IF isProcessingLogin
                    THEN returns /\ UNCHANGED <<isProcessingLogin, sentToWeb>>
                  ELSE IF Truthy(ParsedEmail(e.m))
                    THEN /\ awaits("lastEmail")
                         /\ isProcessingLogin' = TRUE
                         /\ UNCHANGED sentToWeb
                  ELSE IF Truthy(Get(e.m, "refreshToken"))
                    THEN /\ awaits("persist")
                         /\ isProcessingLogin' = TRUE
                         /\ UNCHANGED sentToWeb
                  ELSE /\ sentToWeb' = Append(sentToWeb,
                              [type |-> "loginSuccess", accessToken |-> Get(e.m, "accessToken")])
                       /\ isProcessingLogin' = FALSE
                       /\ returns
        ELSE IF e.m.type = "RN_UPDATE_AUTH_STATE"
          THEN /\ IF Truthy(Get(e.m, "refreshToken")) /\ "user" \in DOMAIN e.m
                    THEN awaits("persist")
                    ELSE returns
               /\ UNCHANGED <<lo, logoutCalls, isProcessingLogin, sentToWeb>>
        ELSE /\ returns
             /\ UNCHANGED <<lo, logoutCalls, isProcessingLogin, sentToWeb>>
  /\ UNCHANGED <<messageQueue, isProcessingQueue, accepted, batches, reloads>>
  /\ UNCHANGED <<storeVars, sessVars, initVars, su, fg, appState, wvVars, histVars, loginVars, tvVars, devVars, injVars>>

\* handleGetDeviceInfo: await getDeviceInfo() returns or throws; the answer
\* is sent to this WebView
DeviceInfoDone ==
  /\ bq.pc = "device"
  /\ \E fails \in BOOLEAN :
       IF fails
         THEN /\ store' = store
              /\ sentToWeb' = Append(sentToWeb, [type |-> "deviceInfo", deviceId |-> "unknown-device"])
         ELSE /\ store' = StoreWithDevice(store)
              /\ sentToWeb' = Append(sentToWeb, [type |-> "deviceInfo", deviceId |-> DeviceIdOf(store)])
  /\ bq' = [bq EXCEPT !.pc = "next", !.rest = Tail(bq.rest)]
  /\ UNCHANGED <<messageQueue, isProcessingQueue, isProcessingLogin, accepted, batches,
                 processed, reloads, logoutCalls>>
  /\ UNCHANGED <<keyOk, sessVars, initVars, procVars, wvVars, histVars, loginVars, tvVars, devVars, injVars>>

\* handleLogoutRequest: await logout(false) returns
LogoutRequestDone ==
  /\ bq.pc = "logout" /\ lo.pc = "done"
  /\ bq' = [bq EXCEPT !.pc = "next", !.rest = Tail(bq.rest)]
  /\ UNCHANGED <<messageQueue, isProcessingQueue, isProcessingLogin, accepted, batches,
                 processed, reloads, logoutCalls, sentToWeb>>
  /\ UNCHANGED <<storeVars, sessVars, initVars, procVars, wvVars, histVars, loginVars, tvVars, devVars, injVars>>

\* handleLoginSuccess: await setLastEmail(parsed.user.email) returns or
\* throws; with a refreshToken completeLogin is called and awaits
\* setSecureItem(SECURE_KEYS.refreshToken, ...)
LoginSuccessEmailDone ==
  /\ bq.pc = "lastEmail"
  /\ LET m == Head(bq.rest).m IN
     \E out \in {"accept", "reject"} :
       IF out = "reject"
         THEN LoginSuccessEnds /\ UNCHANGED <<store, sentToWeb>>
         ELSE /\ store' = [store EXCEPT ![SECURE_KEYS.lastEmail] = ParsedEmail(m)]
              /\ IF Truthy(Get(m, "refreshToken"))
                   THEN /\ bq' = [bq EXCEPT !.pc = "persist"]
                        /\ UNCHANGED <<isProcessingLogin, sentToWeb>>
                   ELSE LoginSuccessInjects(m)
  /\ UNCHANGED <<messageQueue, isProcessingQueue, accepted, batches, processed, reloads,
                 logoutCalls>>
  /\ UNCHANGED <<keyOk, sessVars, initVars, procVars, wvVars, histVars, loginVars, tvVars, devVars, injVars>>

\* the argument of completeLogin: handleLoginSuccess passes the user it
\* built, the RN_UPDATE_AUTH_STATE case builds { name: parsed.user.name ||
\* parsed.user.email || 'User', email: parsed.user.email ||
\* 'user@example.com' }
CompletePayload(m) ==
  [refreshToken |-> m.refreshToken,
   accessToken |-> Get(m, "accessToken"),
   user |-> IF m.type = "RN_UPDATE_AUTH_STATE"
              THEN [name |-> IF Truthy(Get(m.user, "name")) THEN m.user.name
                             ELSE IF Truthy(Get(m.user, "email")) THEN m.user.email
                             ELSE "User",
                    email |-> IF Truthy(Get(m.user, "email")) THEN m.user.email
                              ELSE "user@example.com"]
              ELSE LoginUser(m)]

\* variant: the refresh token is not written
PersistRefreshTokenNowhere(st, rt) == st

\* await setSecureItem(SECURE_KEYS.refreshToken, payload.refreshToken)
PersistRefreshToken(st, rt) == [st EXCEPT ![SECURE_KEYS.refreshToken] = rt]

\* if (payload.accessToken) setAccessToken(payload.accessToken)
NextAccessToken(payload) ==
  IF Truthy(payload.accessToken) THEN payload.accessToken ELSE accessToken

\* completeLogin has returned or thrown (out): in the RN_UPDATE_AUTH_STATE
\* case an exception is caught and the case ends; handleLoginSuccess injects
\* the login script after a return, skips it after an exception, and
\* leaves through its finally block
AfterCompleteLogin(m, out) ==
  /\ bq' = [bq EXCEPT !.pc = "next", !.rest = Tail(bq.rest), !.cl = out]
  /\ IF m.type = "RN_UPDATE_AUTH_STATE"
       THEN UNCHANGED <<isProcessingLogin, sentToWeb>>
       ELSE /\ isProcessingLogin' = FALSE
            /\ sentToWeb' = IF out = "returned"
                 THEN Append(sentToWeb, [type |-> "loginSuccess", accessToken |-> Get(m, "accessToken")])
                 ELSE sentToWeb

\* completeLogin: await setSecureItem(refreshToken) returns or throws;
\* setToken, setUser, setAccessToken when the payload has an accessToken;
\* then setLastEmail is awaited when the user has an email
CompleteLoginPersistDone ==
  /\ bq.pc = "persist"
  /\ LET m == Head(bq.rest).m
         payload == CompletePayload(m) IN
     \E out \in {"accept", "reject"} :
       IF out = "reject"
         THEN AfterCompleteLogin(m, "threw") /\ UNCHANGED <<store, sessVars>>
         ELSE /\ store' = PersistRefreshToken(store, payload.refreshToken)
              /\ token' = payload.refreshToken
              /\ user' = payload.user
              /\ accessToken' = NextAccessToken(payload)
              /\ UNCHANGED pinEnabled
              /\ IF Truthy(payload.user.email)
                   THEN /\ bq' = [bq EXCEPT !.pc = "email"]
                        /\ UNCHANGED <<hasStoredSession, isProcessingLogin, sentToWeb>>
                   ELSE /\ hasStoredSession' = TRUE
                        /\ AfterCompleteLogin(m, "returned")
  /\ UNCHANGED <<messageQueue, isProcessingQueue, accepted, batches, processed, reloads,
                 logoutCalls>>
  /\ UNCHANGED <<keyOk, initVars, procVars, wvVars, histVars, loginVars, tvVars, devVars, injVars>>

\* completeLogin: await setLastEmail(payload.user.email) returns or throws;
\* FCMService.initialize is started, setHasStoredSession(true); back in
\* the caller
CompleteLoginEmailDone ==
  /\ bq.pc = "email"
  /\ LET m == Head(bq.rest).m
         payload == CompletePayload(m) IN
     \E out \in {"accept", "reject"} :
       IF out = "reject"
         THEN AfterCompleteLogin(m, "threw") /\ UNCHANGED <<store, hasStoredSession>>
         ELSE /\ store' = [store EXCEPT ![SECURE_KEYS.lastEmail] = payload.user.email]
              /\ hasStoredSession' = TRUE
              /\ AfterCompleteLogin(m, "returned")
  /\ UNCHANGED <<messageQueue, isProcessingQueue, accepted, batches, processed, reloads,
                 logoutCalls>>
  /\ UNCHANGED <<keyOk, user, token, accessToken, pinEnabled, initVars, procVars, wvVars,
                 histVars, loginVars, tvVars, devVars, injVars>>

\* processMessageQueue after its for loop: the reload timer is set unless
\* shouldSkipRefresh; back in the timer callback setMessageQueue([]) and
\* setIsProcessingQueue(false)
QueueDone ==
  /\ bq.pc = "next" /\ bq.rest = <<>>
  /\ reloads' = IF ~shouldSkipRefresh(bq.batch) THEN reloads + 1 ELSE reloads
  /\ messageQueue' = <<>>
  /\ isProcessingQueue' = FALSE
  /\ bq' = IdleQueue
  /\ UNCHANGED <<isProcessingLogin, accepted, batches, processed, logoutCalls, sentToWeb>>
  /\ UNCHANGED <<storeVars, sessVars, initVars, procVars, wvVars, histVars, loginVars, tvVars, devVars, injVars>>

\* ------------------------------------------- token-verification reports

VerificationTypes == {"RN_SET_TOKENS_SUCCESS", "RN_SET_TOKENS_FAILED", "RN_SET_TOKENS_ERROR"}

\* variant: only RN_SET_TOKENS_FAILED revokes the session
RevokesOnFailedOnly(type) == type = "RN_SET_TOKENS_FAILED"

\* message.type === 'RN_SET_TOKENS_FAILED' || message.type === 'RN_SET_TOKENS_ERROR'
RevokesOn(type) == type \in {"RN_SET_TOKENS_FAILED", "RN_SET_TOKENS_ERROR"}

\* registerTokenVerificationCallback(callback)
RegisterCallback(c) == tokenVerificationCallbacks' = tokenVerificationCallbacks \cup {c}

\* unregisterTokenVerificationCallback(callback)
UnregisterCallback(c) == tokenVerificationCallbacks' = tokenVerificationCallbacks \ {c}

\* WebViewManager.handleTokenVerificationResponse(message): every registered
\* callback is called; AuthProvider's callback, for a failed or error
\* report, runs to await Promise.all([deleteSecureItem ...])
ReportVerification ==
  /\ Len(tvLog) < MaxReports
  /\ \E type \in VerificationTypes :
       /\ tvLog' = Append(tvLog, [type |-> type, invoked |-> tokenVerificationCallbacks])
       /\ tv' = IF AuthCallback \in tokenVerificationCallbacks /\ RevokesOn(type)
                  THEN tv + 1 ELSE tv
  /\ UNCHANGED tokenVerificationCallbacks
  /\ UNCHANGED <<storeVars, sessVars, initVars, procVars, wvVars, histVars, loginVars,
                 bridgeVars, devVars, injVars>>

\* handleTokenVerificationResponse of AuthProvider: both deletes (each with
\* .catch) have settled; setHasStoredSession(false), setAccessToken(null),
\* setToken(null), setUser(null)
VerificationRevokes ==
  /\ tv > 0
  /\ tv' = tv - 1
  /\ store' = DeleteQuiet(DeleteQuiet(store, SECURE_KEYS.refreshToken), AccessKey)
  /\ ClearTokens
  /\ UNCHANGED <<tokenVerificationCallbacks, tvLog>>
  /\ UNCHANGED <<keyOk, initVars, procVars, wvVars, histVars, loginVars, bridgeVars, devVars, injVars>>

\* some other component registers or unregisters its callback
ApiRegisterCallback ==
  /\ "other" \notin tokenVerificationCallbacks
  /\ RegisterCallback("other")
  /\ UNCHANGED <<tv, tvLog>>
  /\ UNCHANGED <<storeVars, sessVars, initVars, procVars, wvVars, histVars, loginVars,
                 bridgeVars, devVars, injVars>>

ApiUnregisterCallback ==
  /\ "other" \in tokenVerificationCallbacks
  /\ UnregisterCallback("other")
  /\ UNCHANGED <<tv, tvLog>>
  /\ UNCHANGED <<storeVars, sessVars, initVars, procVars, wvVars, histVars, loginVars,
                 bridgeVars, devVars, injVars>>

\* ----------------------------------------------------- specifications

Startup ==
  \/ StartupBegin \/ StartupDevice \/ StartupReadRT \/ StartupReadAT \/ StartupReadPin
  \/ StartupCheckReturns \/ StartupRefreshReturns \/ StartupPersistDone \/ StartupForceDel
  \/ StartupRefreshOnlyReturns \/ StartupPersistOnlyDone \/ StartupFcmDone

Logout == LogoutCall \/ LogoutReadDone \/ LogoutServerDone \/ LogoutDel1Done \/ LogoutDel2Done

Foreground ==
  \/ AppBackground \/ AppForeground \/ FgDevice \/ FgReadRT \/ FgReadAT
  \/ FgCheckReturns \/ FgRefreshReturns \/ FgPersistDone

Next == Startup \/ WatchdogFire \/ Logout \/ Foreground

\* the session manager: startup, watchdog, logout, foreground re-validation.
\* SecureStore writes and deletes of accepted keys and values succeed; no
\* WebView registers and setWebViewReady is not called (no caller in the
\* repository calls it), so token-set broadcasts are queued.
Spec == Init /\ [][Next]_vars

\* the 15 s timer fires once armed, whatever the awaited calls do
LiveSpec == Spec /\ WF_vars(StartupBegin) /\ WF_vars(WatchdogFire)

\* the WebViewManager API called in any order; the calls of
\* broadcastSetTokens are told apart by their position in bcLog
ApiBroadcastSetTokens ==
  /\ Len(bcLog) < MaxBroadcasts
  /\ broadcastSetTokens("AT1", "D1", [name |-> "A", email |-> "a@b.com"])
  /\ UNCHANGED <<storeVars, extVars, loginVars, sessVars, initVars, procVars, histVars>>

ApiRegisterWebView ==
  /\ \E w \in WebViews : w \notin webViewRefs /\ RegisterWebView(w)
  /\ UNCHANGED <<storeVars, extVars, loginVars, sessVars, initVars, procVars, histVars>>

ApiUnregisterWebView ==
  /\ \E w \in webViewRefs : UnregisterWebView(w)
  /\ UNCHANGED <<storeVars, extVars, loginVars, sessVars, initVars, procVars, histVars>>

ApiSetWebViewReady ==
  /\ SetWebViewReady
  /\ UNCHANGED <<storeVars, extVars, loginVars, sessVars, initVars, procVars, histVars>>

InitWV == Init /\ keyOk /\ \A k \in StoreKeys : store[k] = Null

NextWV == ApiBroadcastSetTokens \/ ApiRegisterWebView \/ ApiUnregisterWebView \/ ApiSetWebViewReady

SpecWV == InitWV /\ [][NextWV]_vars

\* ------------------------------------- executeJavaScript with failures

\* a WebView before another in the iteration order of webViewRefs
Before(v, w) == v = "w1" /\ w = "w2"

\* variant: no try/catch in the loop, the first exception ends forEach
executeJavaScriptAborting(inj, msgs, throwing) ==
  [w \in WebViews |->
     IF w \in webViewRefs \ throwing /\ ~\E v \in webViewRefs \cap throwing : Before(v, w)
       THEN inj[w] \o msgs ELSE inj[w]]

\* executeJavaScript(jsCode) when injectJavaScript throws on the WebViews
\* of throwing: the catch inside forEach logs and the loop goes on
executeJavaScriptThrowing(inj, msgs, throwing) ==
  [w \in WebViews |-> IF w \in webViewRefs \ throwing THEN inj[w] \o msgs ELSE inj[w]]

\* broadcastLogout(skipRefresh) called through the API, injectJavaScript
\* throwing on any of the registered WebViews
ApiBroadcastLogout ==
  /\ Len(issued) < MaxInjects
  /\ \E skip \in BOOLEAN, throwing \in SUBSET webViewRefs :
       /\ injected' = executeJavaScriptThrowing(injected,
                         <<[kind |-> "logout", skipRefresh |-> skip]>>, throwing)
       /\ issued' = Append(issued, [refs |-> webViewRefs, threw |-> throwing])
  /\ UNCHANGED <<webViewRefs, isWebViewReady, pendingTokenBroadcasts, bcLog>>
  /\ UNCHANGED <<storeVars, bridgeVars, tvVars, devVars, loginVars, sessVars, initVars, procVars,
                 histVars>>

NextInj == ApiBroadcastLogout \/ ApiRegisterWebView \/ ApiUnregisterWebView

\* broadcasts made while WebViews register and unregister, up to
\* MaxInjects of them
SpecInj == InitWV /\ [][NextInj]_vars

\* logout called while fewer than MaxLogouts scripts were injected
BoundedLogoutCall ==
  /\ \A w \in WebViews : Len(injected[w]) < MaxLogouts
  /\ LogoutCall

\* a started application, without a session or with the session a PIN login
\* left, and no WebView registered yet
InitLO ==
  /\ keyOk = FALSE
  /\ \E in \in BOOLEAN :
       /\ store = [k \in StoreKeys |->
            IF k = SECURE_KEYS.deviceId THEN "D1"
            ELSE IF k = SECURE_KEYS.refreshToken /\ in THEN "RT2"
            ELSE IF k = SECURE_KEYS.lastEmail /\ in THEN "a@b.com"
            ELSE Null]
       /\ user = (IF in THEN [name |-> "A", email |-> "a@b.com"] ELSE NullUser)
       /\ token = (IF in THEN "RT2" ELSE Null)
       /\ accessToken = (IF in THEN "AT3" ELSE Null)
       /\ hasStoredSession = in
  /\ pinEnabled = FALSE /\ ready = TRUE
  /\ initState = [step |-> "complete", error |-> Null, ready |-> TRUE]
  /\ isCompleted = TRUE /\ isInitializedRef = TRUE /\ timerArmed = TRUE
  /\ appState = "active"
  /\ su = [pc |-> "done", deviceId |-> "D1", rt |-> Null, at |-> Null,
           res |-> [success |-> FALSE], cause |-> "none", checks |-> 0, refreshes |-> 0]
  /\ lo = [pc |-> "idle", skip |-> FALSE]
  /\ fg = [pc |-> "idle", deviceId |-> Null, rt |-> Null, at |-> Null, res |-> [success |-> FALSE]]
  /\ webViewRefs = {} /\ isWebViewReady = FALSE /\ pendingTokenBroadcasts = <<>>
  /\ injected = [w \in WebViews |-> <<>>]
  /\ bcLog = <<>>
  /\ readyEffects = 1
  /\ netCalls = [check |-> 0, refresh |-> 0]
  /\ fgRuns = 0
  /\ overtaken = FALSE
  /\ li = IdleLogin
  /\ loginLog = <<>>
  /\ BridgeIdle /\ VerifyIdle({AuthCallback}) /\ DeviceIdle /\ NoneIssued

NextLO ==
  \/ BoundedLogoutCall \/ LogoutReadDone \/ LogoutServerDone \/ LogoutDel1Done \/ LogoutDel2Done
  \/ ApiRegisterWebView \/ ApiUnregisterWebView \/ ApiSetWebViewReady

\* logout with WebViews registering and unregistering around it
SpecLO == InitLO /\ [][NextLO]_vars

\* await getSecureItem(refreshToken) throws (no catch on it): the server call
\* is skipped, the finally block starts with the exception pending
LogoutReadFails ==
  /\ lo.pc = "read"
  /\ lo' = [lo EXCEPT !.pc = "del1x"]
  /\ broadcastLogout(lo.skip)
  /\ UNCHANGED <<storeVars, extVars, loginVars, sessVars, initVars, su, fg, appState, histVars>>

\* await deleteSecureItem(SECURE_KEYS.refreshToken) returns, exception pending
LogoutDel1xDone ==
  /\ lo.pc = "del1x"
  /\ store' = DeleteItem(store, SECURE_KEYS.refreshToken)
  /\ lo' = [lo EXCEPT !.pc = "del2x"]
  /\ UNCHANGED <<keyOk, extVars, loginVars, sessVars, initVars, su, fg, appState, wvVars, histVars>>

\* await deleteSecureItem(SECURE_KEYS.pinEnabled) returns, exception pending:
\* the state is cleared, then the finally block ends and the exception of
\* getSecureItem leaves logout
LogoutDel2xDone ==
  /\ lo.pc = "del2x"
  /\ store' = LogoutSecondDelete(store)
  /\ LogoutClear
  /\ lo' = [lo EXCEPT !.pc = "threw"]
  /\ overtaken' = (overtaken \/ (StartupCallInFlight /\ isCompleted))
  /\ UNCHANGED <<keyOk, extVars, loginVars, initVars, su, fg, appState, wvVars, netCalls, fgRuns>>

\* either deleteSecureItem of the finally block throws: the rest of the block
\* is skipped and the exception leaves logout
LogoutDeleteFails ==
  /\ lo.pc \in {"del1", "del2", "del1x", "del2x"}
  /\ lo' = [lo EXCEPT !.pc = "threw"]
  /\ UNCHANGED <<storeVars, extVars, loginVars, sessVars, initVars, su, fg, appState, wvVars, histVars>>

NextLOFault ==
  \/ NextLO
  \/ LogoutReadFails \/ LogoutDel1xDone \/ LogoutDel2xDone \/ LogoutDeleteFails

\* logout with a secure store whose reads and deletes may fail
SpecLOFault == InitLO /\ [][NextLOFault]_vars

\* logout is called for the first time
FirstLogoutCall == lo.pc = "idle" /\ LogoutCall

\* the tuples broadcastSetTokens queued at startup: one, or two after a
\* foreground re-validation
StartupTuples ==
  LET t(i) == [id |-> i, accessToken |-> "AT1", deviceId |-> "D1",
               user |-> [name |-> "a@b.com", email |-> "a@b.com"]]
  IN {<<t(1)>>, <<t(1), t(2)>>}

\* a started application with the session a startup with valid tokens
\* leaves: its token-set broadcasts wait in pendingTokenBroadcasts, the
\* WebView of AppWebView is registered or not yet
InitPending ==
  /\ keyOk = TRUE
  /\ store = [k \in StoreKeys |->
       IF k = SECURE_KEYS.deviceId THEN "D1"
       ELSE IF k = SECURE_KEYS.refreshToken THEN "RT1"
       ELSE IF k = AccessKey THEN "AT1"
       ELSE Null]
  /\ user = [name |-> "a@b.com", email |-> "a@b.com"]
  /\ token = "RT1" /\ accessToken = "AT1" /\ hasStoredSession = TRUE
  /\ pinEnabled = FALSE /\ ready = TRUE
  /\ initState = [step |-> "complete", error |-> Null, ready |-> TRUE]
  /\ isCompleted = TRUE /\ isInitializedRef = TRUE /\ timerArmed = TRUE
  /\ appState = "active"
  /\ su = [pc |-> "done", deviceId |-> "D1", rt |-> "RT1", at |-> "AT1",
           res |-> [success |-> FALSE], cause |-> "none", checks |-> 1, refreshes |-> 0]
  /\ lo = [pc |-> "idle", skip |-> FALSE]
  /\ fg = [pc |-> "idle", deviceId |-> Null, rt |-> Null, at |-> Null, res |-> [success |-> FALSE]]
  /\ webViewRefs \in {{}, {"w1"}} /\ isWebViewReady = FALSE
  /\ pendingTokenBroadcasts \in StartupTuples
  /\ bcLog = [i \in 1..Len(pendingTokenBroadcasts) |->
                [t |-> pendingTokenBroadcasts[i], queued |-> TRUE]]
  /\ injected = [w \in WebViews |-> <<>>]
  /\ readyEffects = 1
  /\ netCalls = [check |-> Len(pendingTokenBroadcasts), refresh |-> 0]
  /\ fgRuns = Len(pendingTokenBroadcasts) - 1
  /\ overtaken = FALSE
  /\ li = IdleLogin
  /\ loginLog = <<>>
  /\ BridgeIdle /\ VerifyIdle({AuthCallback}) /\ DeviceIdle /\ NoneIssued

NextPending ==
  \/ FirstLogoutCall \/ LogoutReadDone \/ LogoutServerDone \/ LogoutDel1Done \/ LogoutDel2Done
  \/ ApiRegisterWebView \/ ApiUnregisterWebView \/ ApiSetWebViewReady

\* one logout, and WebViews registering and becoming ready, with token-set
\* broadcasts waiting since startup
SpecPending == InitPending /\ [][NextPending]_vars

\* a started application with a session whose foreground re-validation has
\* read both tokens and awaits checkTokenValid; logout has not been called
InitOverlap ==
  /\ keyOk = TRUE
  /\ store = [k \in StoreKeys |->
       IF k = SECURE_KEYS.deviceId THEN "D1"
       ELSE IF k = SECURE_KEYS.refreshToken THEN "RT1"
       ELSE IF k = AccessKey THEN "AT1"
       ELSE Null]
  /\ user = [name |-> "a@b.com", email |-> "a@b.com"]
  /\ token = "RT1" /\ accessToken = "AT1" /\ hasStoredSession = TRUE
  /\ pinEnabled \in BOOLEAN /\ ready = TRUE
  /\ initState = [step |-> "complete", error |-> Null, ready |-> TRUE]
  /\ isCompleted = TRUE /\ isInitializedRef = TRUE /\ timerArmed = TRUE
  /\ appState = "active"
  /\ su = [pc |-> "done", deviceId |-> "D1", rt |-> "RT1", at |-> "AT1",
           res |-> [success |-> FALSE], cause |-> "none", checks |-> 1, refreshes |-> 0]
  /\ lo = [pc |-> "idle", skip |-> FALSE]
  /\ fg = [pc |-> "check", deviceId |-> "D1", rt |-> "RT1", at |-> "AT1",
           res |-> [success |-> FALSE]]
  /\ webViewRefs \in {{}, {"w1"}} /\ isWebViewReady \in BOOLEAN
  /\ pendingTokenBroadcasts = <<>>
  /\ bcLog = <<>>
  /\ injected = [w \in WebViews |-> <<>>]
  /\ readyEffects = 1
  /\ netCalls = [check |-> 2, refresh |-> 0]
  /\ fgRuns = 1
  /\ overtaken = FALSE
  /\ li = IdleLogin
  /\ loginLog = <<>>
  /\ BridgeIdle /\ VerifyIdle({AuthCallback}) /\ DeviceIdle /\ NoneIssued

NextOverlap ==
  \/ FirstLogoutCall \/ LogoutReadDone \/ LogoutServerDone \/ LogoutDel1Done \/ LogoutDel2Done
  \/ FgCheckReturns \/ FgRefreshReturns \/ FgPersistDone

\* one logout called while one foreground re-validation awaits its calls
SpecOverlap == InitOverlap /\ [][NextOverlap]_vars

\* a started application, without a session or with the session a login
\* left, and the WebView of AppWebView registered
InitBridge ==
  /\ keyOk = FALSE
  /\ \E in \in BOOLEAN :
       /\ store = [k \in StoreKeys |->
            IF k = SECURE_KEYS.deviceId THEN "D1"
            ELSE IF k = SECURE_KEYS.refreshToken /\ in THEN "RT1"
            ELSE IF k = SECURE_KEYS.lastEmail /\ in THEN "a@b.com"
            ELSE Null]
       /\ user = (IF in THEN [name |-> "A", email |-> "a@b.com"] ELSE NullUser)
       /\ token = (IF in THEN "RT1" ELSE Null)
       /\ accessToken = (IF in THEN "AT1" ELSE Null)
       /\ hasStoredSession = in
  /\ pinEnabled = FALSE /\ ready = TRUE
  /\ initState = [step |-> "complete", error |-> Null, ready |-> TRUE]
  /\ isCompleted = TRUE /\ isInitializedRef = TRUE /\ timerArmed = TRUE
  /\ appState = "active"
  /\ su = [pc |-> "done", deviceId |-> "D1", rt |-> Null, at |-> Null,
           res |-> [success |-> FALSE], cause |-> "none", checks |-> 0, refreshes |-> 0]
  /\ lo = [pc |-> "idle", skip |-> FALSE]
  /\ fg = [pc |-> "idle", deviceId |-> Null, rt |-> Null, at |-> Null, res |-> [success |-> FALSE]]
  /\ webViewRefs = {"w1"} /\ isWebViewReady = FALSE /\ pendingTokenBroadcasts = <<>>
  /\ injected = [w \in WebViews |-> <<>>]
  /\ bcLog = <<>>
  /\ readyEffects = 1
  /\ netCalls = [check |-> 0, refresh |-> 0]
  /\ fgRuns = 0
  /\ overtaken = FALSE
  /\ li = IdleLogin
  /\ loginLog = <<>>
  /\ VerifyIdle({AuthCallback}) /\ DeviceIdle /\ NoneIssued

\* the batches processMessageQueue is called with: every sequence of one to
\* MaxBatch inbound messages
Batches ==
  UNION {[1..n -> Inbound] : n \in 1..MaxBatch}

\* the timer callback is about to call processMessageQueue(b)
InitBatch ==
  /\ InitBridge
  /\ \E b \in Batches :
       LET q == [i \in 1..Len(b) |-> [id |-> i, m |-> b[i]]] IN
       /\ messageQueue = q
       /\ bq = [pc |-> "timer", batch |-> q, rest |-> <<>>, cl |-> "none"]
       /\ accepted = [i \in 1..Len(b) |->
                        [id |-> i, m |-> b[i], at |-> IF i = 1 THEN "idle" ELSE "timer", due |-> 1]]
  /\ isProcessingQueue = TRUE /\ isProcessingLogin = FALSE
  /\ batches = <<>> /\ processed = <<>>
  /\ reloads = 0 /\ logoutCalls = 0 /\ sentToWeb = <<>>

ProcessQueue ==
  \/ TimerFires \/ ProcessSingle \/ DeviceInfoDone \/ LogoutRequestDone
  \/ LoginSuccessEmailDone \/ CompleteLoginPersistDone \/ CompleteLoginEmailDone \/ QueueDone
  \/ LogoutReadDone \/ LogoutServerDone \/ LogoutDel1Done \/ LogoutDel2Done

NextBatch == ProcessQueue

\* processMessageQueue called once with a batch of inbound messages
SpecBatch == InitBatch /\ [][NextBatch]_vars

InitMsg == InitBridge /\ BridgeIdle

NextMsg == HandleMessage \/ ProcessQueue

\* AppWebView receiving up to MaxMsgs messages from the embedded content
SpecMsg == InitMsg /\ [][NextMsg]_vars

\* the messages by which the embedded content reports a login it has
\* completed: with and without an access token, without a user, without a
\* refresh token
AuthMessages ==
  {[type |-> "loginSuccess", success |-> TRUE, refreshToken |-> "RT2", accessToken |-> "AT3",
    user |-> [name |-> "B", email |-> "b@c.com"]],
   [type |-> "loginSuccess", refreshToken |-> "RT2", user |-> [name |-> "B", email |-> "b@c.com"]],
   [type |-> "pinLoginSuccess", success |-> TRUE, accessToken |-> "AT3",
    user |-> [name |-> "B", email |-> "b@c.com"]],
   [type |-> "RN_UPDATE_AUTH_STATE", refreshToken |-> "RT2", accessToken |-> "AT3",
    user |-> [email |-> "b@c.com"]],
   [type |-> "RN_UPDATE_AUTH_STATE", refreshToken |-> "RT2",
    user |-> [name |-> "B", email |-> "b@c.com"]],
   [type |-> "RN_UPDATE_AUTH_STATE", refreshToken |-> "RT2"]}

AuthBatches ==
  UNION {[1..n -> AuthMessages] : n \in 1..MaxLoginMsgs}

\* the timer callback is about to call processMessageQueue(b), b a batch
\* of login reports; the application holds user A's session or none
InitCL ==
  /\ InitBridge
  /\ \E b \in AuthBatches :
       LET q == [i \in 1..Len(b) |-> [id |-> i, m |-> b[i]]] IN
       /\ messageQueue = q
       /\ bq = [pc |-> "timer", batch |-> q, rest |-> <<>>, cl |-> "none"]
       /\ accepted = [i \in 1..Len(b) |->
                        [id |-> i, m |-> b[i], at |-> IF i = 1 THEN "idle" ELSE "timer", due |-> 1]]
  /\ isProcessingQueue = TRUE /\ isProcessingLogin = FALSE
  /\ batches = <<>> /\ processed = <<>>
  /\ reloads = 0 /\ logoutCalls = 0 /\ sentToWeb = <<>>

NextCL ==
  \/ TimerFires \/ ProcessSingle \/ LoginSuccessEmailDone \/ CompleteLoginPersistDone
  \/ CompleteLoginEmailDone \/ QueueDone

\* processMessageQueue called once with a batch of login reports;
\* SecureStore writes may fail
SpecCL == InitCL /\ [][NextCL]_vars

\* a started application with any session a startup or a login leaves, the
\* callback of AuthProvider registered
InitTV ==
  /\ keyOk \in BOOLEAN
  /\ \E in \in BOOLEAN, at \in BOOLEAN, pin \in BOOLEAN :
       /\ (at => keyOk /\ in)
       /\ store = [k \in StoreKeys |->
            IF k = SECURE_KEYS.deviceId THEN "D1"
            ELSE IF k = SECURE_KEYS.refreshToken /\ in THEN "RT1"
            ELSE IF k = AccessKey /\ at THEN "AT1"
            ELSE IF k = SECURE_KEYS.pinEnabled /\ pin THEN "1"
            ELSE IF k = SECURE_KEYS.lastEmail /\ in THEN "a@b.com"
            ELSE Null]
       /\ user = (IF in THEN [name |-> "A", email |-> "a@b.com"] ELSE NullUser)
       /\ token = (IF in THEN "RT1" ELSE Null)
       /\ accessToken = (IF in THEN "AT1" ELSE Null)
       /\ hasStoredSession = in
       /\ pinEnabled = pin
  /\ ready = TRUE
  /\ initState = [step |-> "complete", error |-> Null, ready |-> TRUE]
  /\ isCompleted = TRUE /\ isInitializedRef = TRUE /\ timerArmed = TRUE
  /\ appState = "active"
  /\ su = [pc |-> "done", deviceId |-> "D1", rt |-> Null, at |-> Null,
           res |-> [success |-> FALSE], cause |-> "none", checks |-> 0, refreshes |-> 0]
  /\ lo = [pc |-> "idle", skip |-> FALSE]
  /\ fg = [pc |-> "idle", deviceId |-> Null, rt |-> Null, at |-> Null, res |-> [success |-> FALSE]]
  /\ webViewRefs = {"w1"} /\ isWebViewReady = FALSE /\ pendingTokenBroadcasts = <<>>
  /\ injected = [w \in WebViews |-> <<>>]
  /\ bcLog = <<>>
  /\ readyEffects = 1
  /\ netCalls = [check |-> 0, refresh |-> 0]
  /\ fgRuns = 0
  /\ overtaken = FALSE
  /\ li = IdleLogin
  /\ loginLog = <<>>
  /\ BridgeIdle /\ VerifyIdle({AuthCallback}) /\ DeviceIdle /\ NoneIssued

NextTV == ReportVerification \/ VerificationRevokes \/ ApiRegisterCallback \/ ApiUnregisterCallback

\* token-verification reports handed to the WebViewManager, up to MaxReports
SpecTV == InitTV /\ [][NextTV]_vars

\* ------------------------------------------------ the device identifier

\* generateRealDeviceId(): device description, Date.now() and a random
\* suffix; the n-th identifier generated
generateRealDeviceId(n) == "G" \o ToString(n)

\* calls of getDeviceInfo started so far
DeviceCalls == Len(devReturned) + Cardinality({c \in DeviceCallers : gd[c].pc # "idle"})

\* getDeviceInfo() is called by c and runs to await getSecureItem(deviceId)
\* in getOrCreateDeviceId
GetDeviceInfoCall(c) ==
  /\ gd[c].pc = "idle"
  /\ DeviceCalls < MaxDevCalls
  /\ gd' = [gd EXCEPT ![c] = [pc |-> "read", id |-> Null, catch |-> FALSE]]
  /\ UNCHANGED <<storeVars, generated, devReturned, bridgeVars, tvVars, injVars, loginVars, sessVars,
                 initVars, procVars, wvVars, histVars>>

\* getDeviceInfo returns { deviceId: v, ... } to c
DeviceReturns(c, v) ==
  /\ gd' = [gd EXCEPT ![c] = [pc |-> "idle", id |-> Null, catch |-> FALSE]]
  /\ devReturned' = Append(devReturned, [by |-> c, id |-> v])

\* getOrCreateDeviceId throws: in getDeviceInfo's try the catch calls it
\* again, in the catch the exception reaches c
DeviceThrows(c) ==
  IF gd[c].catch
    THEN DeviceReturns(c, "throws")
    ELSE /\ gd' = [gd EXCEPT ![c] = [pc |-> "read", id |-> Null, catch |-> TRUE]]
         /\ UNCHANGED devReturned

\* await getSecureItem(SECURE_KEYS.deviceId) returns or throws; without a
\* stored identifier one is generated and setSecureItem is called
GetDeviceIdRead(c) ==
  /\ gd[c].pc = "read"
  /\ \E fails \in BOOLEAN :
       IF fails
         THEN DeviceThrows(c) /\ UNCHANGED generated
         ELSE IF Truthy(store[SECURE_KEYS.deviceId])
                THEN DeviceReturns(c, store[SECURE_KEYS.deviceId]) /\ UNCHANGED generated
                ELSE /\ generated' = generated + 1
                     /\ gd' = [gd EXCEPT ![c].pc = "write",
                                         ![c].id = generateRealDeviceId(generated + 1)]
                     /\ UNCHANGED devReturned
  /\ UNCHANGED <<storeVars, bridgeVars, tvVars, injVars, loginVars, sessVars, initVars, procVars,
                 wvVars, histVars>>

\* await setSecureItem(SECURE_KEYS.deviceId, deviceId) returns or throws;
\* return deviceId
GetDeviceIdWrite(c) ==
  /\ gd[c].pc = "write"
  /\ \E out \in {"ok", "reject"} :
       IF out = "reject"
         THEN DeviceThrows(c) /\ UNCHANGED store
         ELSE /\ store' = [store EXCEPT ![SECURE_KEYS.deviceId] = gd[c].id]
              /\ DeviceReturns(c, gd[c].id)
  /\ UNCHANGED <<keyOk, generated, bridgeVars, tvVars, injVars, loginVars, sessVars, initVars, procVars,
                 wvVars, histVars>>

\* the startup sequence is in its device phase and the content is loaded
InitDev ==
  /\ keyOk = FALSE
  /\ \E d \in {Null, "D1"} :
       store = [k \in StoreKeys |-> IF k = SECURE_KEYS.deviceId THEN d ELSE Null]
  /\ user = NullUser /\ token = Null /\ accessToken = Null
  /\ hasStoredSession = FALSE /\ pinEnabled = FALSE /\ ready = FALSE
  /\ initState = [step |-> "device", error |-> Null, ready |-> FALSE]
  /\ isCompleted = FALSE /\ isInitializedRef = FALSE /\ timerArmed = TRUE
  /\ appState = "active"
  /\ su = [pc |-> "device", deviceId |-> Null, rt |-> Null, at |-> Null, res |-> [success |-> FALSE],
           cause |-> "none", checks |-> 0, refreshes |-> 0]
  /\ lo = [pc |-> "idle", skip |-> FALSE]
  /\ fg = [pc |-> "idle", deviceId |-> Null, rt |-> Null, at |-> Null, res |-> [success |-> FALSE]]
  /\ webViewRefs = {"w1"} /\ isWebViewReady = FALSE /\ pendingTokenBroadcasts = <<>>
  /\ injected = [w \in WebViews |-> <<>>]
  /\ bcLog = <<>>
  /\ readyEffects = 0
  /\ netCalls = [check |-> 0, refresh |-> 0]
  /\ fgRuns = 0
  /\ overtaken = FALSE
  /\ li = IdleLogin
  /\ loginLog = <<>>
  /\ BridgeIdle /\ VerifyIdle({AuthCallback}) /\ DeviceIdle /\ NoneIssued

NextDev ==
  \E c \in DeviceCallers : GetDeviceInfoCall(c) \/ GetDeviceIdRead(c) \/ GetDeviceIdWrite(c)

\* calls of getDeviceInfo by the startup sequence and by the message
\* handler, up to MaxDevCalls, SecureStore reads and writes failing or not
SpecDev == InitDev /\ [][NextDev]_vars

\* ---------------------------------------------------------- properties

SessionEmpty ==
  /\ user = NullUser /\ token = Null /\ accessToken = Null
  /\ ~hasStoredSession /\ ~pinEnabled

TokensAbsent == store[SECURE_KEYS.refreshToken] = Null /\ store[AccessKey] = Null

\* ids of the token-set scripts injected into WebView w, in injection order
RECURSIVE TokenIds(_)
TokenIds(msgs) ==
  IF msgs = <<>> THEN <<>>
  ELSE IF Head(msgs).kind = "RN_SET_TOKENS" THEN <<Head(msgs).id>> \o TokenIds(Tail(msgs))
  ELSE TokenIds(Tail(msgs))

QueueIds(q) == [i \in 1..Len(q) |-> q[i].id]

\* C1: when logout finishes, whatever the server call did, the persisted
\* refresh token, access token and PIN-enabled flag are absent and the
\* in-memory Session is empty.
C1_LogoutClearsAll ==
  [][(lo.pc = "del2" /\ lo'.pc = "done") =>
       /\ store'[SECURE_KEYS.refreshToken] = Null
       /\ store'[AccessKey] = Null
       /\ store'[SECURE_KEYS.pinEnabled] = Null
       /\ SessionEmpty']_vars

\* C2: the completion side effects (setReady(true), isInitializedRef) run at
\* most once, ready is true exactly when they have run, a later terminal
\* updateInitState does not run them again, and ready never returns to false.
C2_ReadyOnce ==
  /\ [](readyEffects <= 1 /\ (ready <=> readyEffects = 1) /\ (ready <=> isCompleted)
        /\ (initState.ready => ready))
  /\ [][ready => ready']_vars

\* natural completion reached after the watchdog had already fired
C2_Witness ==
  su.pc = "done" /\ initState.step = "complete" /\ overtaken /\ readyEffects = 1

\* C3: ready eventually becomes true even when awaited calls never return,
\* and the timer callback changes neither the Session nor the store.
C3_StartupNeverHangs ==
  /\ <>ready
  /\ [][(timerArmed /\ ~timerArmed') => UNCHANGED <<sessVars, store>>]_vars

\* the watchdog made ready true while checkTokenValid was still awaited and
\* the Session assembled so far (hasStoredSession) is kept
C3_Witness ==
  ready /\ initState.step = "timeout" /\ su.pc = "check" /\ hasStoredSession

\* C4: in every WebView the queued tuples arrive in the order they were
\* enqueued and none arrives twice; setWebViewReady injects the whole queue,
\* in order, into every registered WebView and leaves the queue empty.
C4_FifoOnce ==
  /\ [](\A w \in WebViews :
          LET ids == TokenIds(injected[w]) IN
          \A i, j \in 1..Len(ids) :
            i < j => /\ ids[i] # ids[j]
                     /\ (bcLog[ids[i]].queued /\ bcLog[ids[j]].queued => ids[i] < ids[j]))
  /\ [][ApiSetWebViewReady =>
          /\ pendingTokenBroadcasts' = <<>>
          /\ \A w \in webViewRefs :
               TokenIds(injected'[w]) = TokenIds(injected[w]) \o QueueIds(pendingTokenBroadcasts)]_vars

\* A, B, C were queued, drained in order into a WebView, D came after
C4_Witness ==
  /\ Len(bcLog) = 4
  /\ \A i \in 1..3 : bcLog[i].queued
  /\ pendingTokenBroadcasts = <<>>
  /\ \E w \in WebViews : TokenIds(injected[w]) = <<1, 2, 3, 4>>

\* C5: a tuple leaves the pending queue only by being injected into at least
\* one registered WebView.
C5_NoSilentDrop ==
  [][\A i \in 1..Len(pendingTokenBroadcasts) :
       (\A j \in 1..Len(pendingTokenBroadcasts') :
           pendingTokenBroadcasts'[j].id # pendingTokenBroadcasts[i].id)
       => \E w \in WebViews :
            \E k \in 1..Len(injected'[w]) :
              injected'[w][k].kind = "RN_SET_TOKENS" /\
              injected'[w][k].id = pendingTokenBroadcasts[i].id]_vars

\* C6: once a logout has finished while a call of the timed-out startup
\* sequence was in flight, no later step of the startup sequence makes the
\* Session non-empty, persists a token or issues a token-set broadcast.
C6_NoRegressAfterLogout ==
  [][(overtaken /\ su' # su) =>
       /\ (SessionEmpty => SessionEmpty')
       /\ (TokensAbsent => TokensAbsent')
       /\ bcLog' = bcLog]_vars

\* C7: with both tokens read, when refreshAccessToken reports the refresh
\* token invalid, the forced logout deletes both persisted token keys and
\* leaves hasStoredSession false and token, accessToken, user absent.
C7_ForcedLogoutComplete ==
  [][(su.pc = "forceDel" /\ su.cause = "non2xx" /\ su'.pc # "forceDel") =>
       /\ store'[SECURE_KEYS.refreshToken] = Null
       /\ store'[AccessKey] = Null
       /\ ~hasStoredSession' /\ token' = Null /\ accessToken' = Null /\ user' = NullUser]_vars

\* both tokens were read, the refresh was refused, the forced logout ran
C7_Witness ==
  /\ su.pc = "fcm" /\ su.cause = "non2xx" /\ su.at = "AT1" /\ su.rt = "RT1"
  /\ TokensAbsent /\ ~hasStoredSession /\ accessToken = Null

\* C8: with a refresh token only, when refreshAccessToken fails the startup
\* sequence deletes the persisted refresh token, sets hasStoredSession false
\* and leaves the Session empty, as in the both-tokens branch.
C8_RefreshOnlyFailure ==
  [][(su.pc = "refreshOnly" /\ su'.pc = "fcm" /\ su'.cause = "non2xx") =>
       /\ store'[SECURE_KEYS.refreshToken] = Null
       /\ store'[AccessKey] = Null
       /\ ~hasStoredSession' /\ token' = Null /\ accessToken' = Null /\ user' = NullUser]_vars

\* the access token a successful /auth/refresh answer carries
ServerAccessToken(r) == IF "data" \in DOMAIN r THEN r.data.accessToken ELSE r.accessToken

\* C9: after a successful refreshAccessToken in either branch (the store
\* accepting the access-token key) the returned access token is persisted and held in memory with the returned user, a
\* token-set broadcast with it and the device identifier is issued, and the
\* Session is not cleared.
C9_RefreshSuccessApplied ==
  [][(keyOk /\ su.pc \in {"persist", "persistOnly"} /\ su'.pc # su.pc) =>
       /\ su'.pc = "fcm"
       /\ store'[AccessKey] = ServerAccessToken(su.res)
       /\ accessToken' = ServerAccessToken(su.res)
       /\ user' # NullUser
       /\ Len(bcLog') = Len(bcLog) + 1
       /\ bcLog'[Len(bcLog')].t.accessToken = ServerAccessToken(su.res)
       /\ bcLog'[Len(bcLog')].t.deviceId = su.deviceId]_vars

\* C10: a transport failure of checkTokenValid or refreshAccessToken, at
\* startup or at foreground re-validation, never deletes the persisted
\* refresh token and never clears hasStoredSession.
C10_TransportFailureKeepsSession ==
  [][((su.pc = "forceDel" /\ su.cause = "transport" /\ su' # su) \/ fg' # fg) =>
       /\ store'[SECURE_KEYS.refreshToken] = store[SECURE_KEYS.refreshToken]
       /\ hasStoredSession' = hasStoredSession]_vars

\* order of the values of initState.step
StepRank(s) ==
  CASE s = "starting" -> 0 [] s = "device" -> 1 [] s = "tokens" -> 2
    [] s = "validation" -> 3 [] OTHER -> 4

TerminalSteps == {"complete", "timeout", "error"}

\* C11: initState.step only moves forward (starting, device, tokens,
\* validation, then complete, timeout or error); once it is complete, timeout
\* or error it never changes again and initState.ready never returns to
\* false.
C11_TerminalStepFinal ==
  [][/\ StepRank(initState'.step) >= StepRank(initState.step)
     /\ (initState.step \in TerminalSteps => initState'.step = initState.step)
     /\ (initState.ready => initState'.ready)]_vars

\* order of the positions of initializeAuth
PcRank(pc) ==
  CASE pc = "init" -> 0 [] pc = "device" -> 1 [] pc = "readRT" -> 2 [] pc = "readAT" -> 3
    [] pc = "readPin" -> 4 [] pc = "check" -> 5 [] pc \in {"refresh", "refreshOnly"} -> 6
    [] pc \in {"persist", "persistOnly"} -> 7 [] pc = "forceDel" -> 8 [] pc = "fcm" -> 9
    [] OTHER -> 10

\* C12: one startup attempt resolves the device identifier, then reads the
\* tokens, then validates: it never returns to an earlier position, reads a
\* token only with the device identifier resolved, issues a server call only
\* once the token reads have finished, and issues at most one checkTokenValid
\* and at most one refreshAccessToken call.
C12_PhaseOrder ==
  /\ [](su.checks <= 1 /\ su.refreshes <= 1)
  /\ [](PcRank(su.pc) >= 2 => su.deviceId # Null)
  /\ [][/\ (su'.pc # su.pc => PcRank(su'.pc) > PcRank(su.pc))
        /\ (<<su'.rt, su'.at>> # <<su.rt, su.at>> => su.pc \in {"readRT", "readAT"})
        /\ (su'.checks + su'.refreshes > su.checks + su.refreshes => PcRank(su.pc) >= 4)]_vars

\* a startup that issued one check and then one refresh has finished
C12_Witness == su.pc = "done" /\ su.checks = 1 /\ su.refreshes = 1 /\ su.deviceId = "D1"

\* C13: when checkTokenValid reports the stored access token valid, startup
\* sets accessToken and token to the tokens read and user from the response,
\* issues exactly one token-set broadcast with that access token and the
\* device identifier, issues no refreshAccessToken call and deletes nothing.
C13_ValidTokenBranch ==
  /\ [][(su.pc = "check" /\ su'.pc = "fcm") =>
          /\ accessToken' = su.at /\ token' = su.rt
          /\ user' = [name |-> "a@b.com", email |-> "a@b.com"]
          /\ Len(bcLog') = Len(bcLog) + 1
          /\ bcLog'[Len(bcLog')].t.accessToken = su.at
          /\ bcLog'[Len(bcLog')].t.deviceId = su.deviceId
          /\ su'.refreshes = 0
          /\ store' = store]_vars
  /\ [][(su.pc = "fcm" /\ su' # su) =>
          /\ su'.pc = "done" /\ su'.refreshes = su.refreshes
          /\ store' = store /\ bcLog' = bcLog]_vars

\* the valid-token branch ran to the end of startup with nothing else running
C13_Witness ==
  /\ su.pc = "done" /\ su.checks = 1 /\ su.refreshes = 0 /\ lo.pc = "idle" /\ fgRuns = 0
  /\ accessToken = "AT1" /\ token = "RT1" /\ user.email = "a@b.com"
  /\ Len(bcLog) = 1 /\ bcLog[1].t.accessToken = "AT1" /\ bcLog[1].t.deviceId = "D1"
  /\ store[SECURE_KEYS.refreshToken] = "RT1" /\ store[AccessKey] = "AT1"

\* C14: with neither token read, startup goes straight to completion: no
\* checkTokenValid or refreshAccessToken call, no token-set broadcast, no
\* Session field set, hasStoredSession false; on a fresh install it ends at
\* step complete with an empty Session.
C14_FreshInstall ==
  /\ []((PcRank(su.pc) >= 9 /\ ~Truthy(su.rt) /\ ~Truthy(su.at)) =>
          su.checks = 0 /\ su.refreshes = 0)
  /\ [][(su' # su /\ PcRank(su.pc) >= 4 /\ ~Truthy(su.rt) /\ ~Truthy(su.at)) =>
          /\ bcLog' = bcLog
          /\ <<user', token', accessToken'>> = <<user, token, accessToken>>
          /\ ~hasStoredSession'
          /\ (su'.pc = "done" => initState'.step = "complete")]_vars
  /\ []((su.pc = "done" /\ lo.pc = "idle" /\ TokensAbsent /\ su.rt = Null /\ su.at = Null) =>
          /\ user = NullUser /\ token = Null /\ accessToken = Null /\ ~hasStoredSession
          /\ bcLog = <<>> /\ netCalls = [check |-> 0, refresh |-> 0])

\* startup finished on a store without tokens
C14_Witness ==
  /\ su.pc = "done" /\ lo.pc = "idle" /\ TokensAbsent /\ initState.step = "complete"
  /\ su.checks = 0 /\ su.refreshes = 0 /\ bcLog = <<>> /\ ~hasStoredSession

\* a PIN of 4 to 8 ASCII digits
ValidShape(pin) == Len(pin) \in 4..8 /\ \A i \in 1..Len(pin) : pin[i] \in Digits

\* how often event e is in a log, and the index of its first occurrence
Count(log, e) == Cardinality({i \in 1..Len(log) : log[i] = e})
Pos(log, e) == IF Count(log, e) = 0 THEN 0 ELSE CHOOSE i \in 1..Len(log) :
                  log[i] = e /\ \A j \in 1..(i - 1) : log[j] # e

\* C15: pinLogin with a PIN that is not 4 to 8 ASCII digits returns a failure
\* without any /auth/pin-login request; with a PIN of 4 to 8 digits the PIN is
\* hashed and exactly one /auth/pin-login request is sent, after the hashing.
C15_PinShapeFirst ==
  [](li.op = "pin" =>
       /\ (~ValidShape(li.pin) =>
             /\ li.pc = "done" /\ ~li.result.success /\ li.result.error # ""
             /\ Count(loginLog, "POST /auth/pin-login") = 0)
       /\ (ValidShape(li.pin) =>
             \/ li.pc = "hash" /\ Count(loginLog, "POST /auth/pin-login") = 0
             \/ /\ li.pc # "hash"
                /\ Count(loginLog, "POST /auth/pin-login") = 1
                /\ loginLog[2] \in {"sha256", "simple"}
                /\ loginLog[3] = "POST /auth/pin-login"))

\* pinLogin("abcdef") has returned a failure and nothing was sent
C15_Witness ==
  /\ li.op = "pin" /\ li.pin = <<"a", "b", "c", "d", "e", "f">> /\ li.pc = "done"
  /\ ~li.result.success /\ loginLog = <<"validatePin">>

\* C16: when pinLogin returns success the persisted refresh token is the one
\* the server returned, the last-used email is the returned user's email, and
\* token, accessToken and user are the returned ones with hasStoredSession
\* true.
C16_PinLoginApplied ==
  [][(li.op = "pin" /\ li.pc # "done" /\ li'.pc = "done" /\ li'.result.success) =>
       /\ store'[SECURE_KEYS.refreshToken] = Get(li.res, "refreshToken")
       /\ token' = Get(li.res, "refreshToken")
       /\ accessToken' = Get(li.res, "accessToken")
       /\ user' = UserOf(li.res)
       /\ hasStoredSession'
       /\ ("user" \in DOMAIN li.res => store'[SECURE_KEYS.lastEmail] = li.res.user.email)]_vars

\* pinLogin("123456") succeeded on a store that had no last-used email
C16_Witness ==
  /\ li.op = "pin" /\ li.pc = "done" /\ li.result.success
  /\ li.pin = <<"1", "2", "3", "4", "5", "6">>
  /\ store[SECURE_KEYS.refreshToken] = "RT2" /\ store[SECURE_KEYS.lastEmail] = "a@b.com"
  /\ token = "RT2" /\ accessToken = "AT3" /\ user.email = "a@b.com" /\ hasStoredSession

C18_LoginNeverThrows ==
  /\ [](li.pc = "done" =>
          /\ li.result.success \in BOOLEAN
          /\ (~li.result.success => li.result.error \notin {"", Null, Undef, "none"}))
  /\ [][(li.pc \notin {"idle", "done"} /\ li' # li) =>
          li'.pc \in {"server", "persist", "email", "options", "prompt", "bserver", "done"}]_vars

\* the server refused the PIN login without a message of its own
C18_Witness ==
  /\ li.op = "pin" /\ li.pc = "done" /\ ~li.result.success
  /\ li.result.error = "API /auth/pin-login failed"

\* C19: biometricLogin looks up the login options first; the prompt is shown
\* only after a lookup that reported a passkey; /auth/biometric-login is
\* called only after the prompt reported success; the refresh token is
\* persisted only after the server answered.
C19_BiometricOrder ==
  [](li.op = "bio" =>
       /\ (Len(loginLog) > 0 => loginLog[1] = "POST /auth/login-options-by-device")
       /\ (Count(loginLog, "prompt") > 0 =>
             /\ Count(loginLog, "passkey") = 1
             /\ Pos(loginLog, "passkey") < Pos(loginLog, "prompt"))
       /\ (Count(loginLog, "prompt") = 0 /\ Len(loginLog) > 1 =>
             li.pc = "done" /\ ~li.result.success)
       /\ (Count(loginLog, "POST /auth/biometric-login") > 0 =>
             /\ Count(loginLog, "approved") = 1
             /\ Pos(loginLog, "prompt") < Pos(loginLog, "approved")
             /\ Pos(loginLog, "approved") < Pos(loginLog, "POST /auth/biometric-login"))
       /\ (Count(loginLog, "persist refreshToken") > 0 =>
             /\ Count(loginLog, "answered") = 1
             /\ Pos(loginLog, "POST /auth/biometric-login") < Pos(loginLog, "answered")
             /\ Pos(loginLog, "answered") < Pos(loginLog, "persist refreshToken")))

\* a biometric login went through every step
C19_Witness ==
  /\ li.op = "bio" /\ li.pc = "done" /\ li.result.success
  /\ loginLog = <<"POST /auth/login-options-by-device", "passkey", "prompt", "approved",
                  "POST /auth/biometric-login", "answered", "persist refreshToken",
                  "persist lastEmail">>

\* C20: every logout call injects the logout script, with the caller's
\* skip-reload flag, once into each WebView registered at that moment and into
\* no other, with or without a stored refresh token, whatever the server
\* call did, and whether or not the bridge is ready.
C20_LogoutBroadcastOnce ==
  /\ [][(lo'.pc = "del1" /\ lo.pc # "del1") =>
          /\ lo.pc \in {"read", "server"}
          /\ \A w \in WebViews :
               injected'[w] = IF w \in webViewRefs
                                THEN Append(injected[w], [kind |-> "logout", skipRefresh |-> lo.skip])
                                ELSE injected[w]]_vars
  /\ [][(lo' # lo /\ lo'.pc # "del1") =>
          /\ injected' = injected
          /\ (lo'.pc = "del2" => lo.pc = "del1")
          /\ (lo'.pc = "done" => lo.pc = "del2")]_vars

\* one logout with skip-reload reached both WebViews while the bridge was
\* not ready and no refresh token was stored
C20_Witness ==
  /\ lo.pc = "done" /\ ~isWebViewReady /\ ~hasStoredSession
  /\ \A w \in WebViews : injected[w] = <<[kind |-> "logout", skipRefresh |-> TRUE]>>

\* a login-failure message of the batch with success false
IsLoginFailure(e) ==
  e.m.type \in {"loginFailure", "pinLoginFailure", "biometricLoginFailure"} /\ SuccessIs(e, FALSE)

\* the batch holds a login failure and, after it, a logout
FailureThenLogout(b) ==
  \E i, j \in 1..Len(b) : i < j /\ IsLoginFailure(b[i]) /\ b[j].m.type = "logout"

HasType(b, t) == \E i \in 1..Len(b) : b[i].m.type = t

\* processMessageQueue is running on a batch
Draining == bq.pc \notin {"idle", "timer"}

\* the batch processMessageQueue was last called with
CurrentBatch == batches[Len(batches)]

\* C21: while processMessageQueue runs on a batch that holds a login failure
\* followed by a logout, no logout message reaches processSingleMessage, the
\* session manager's logout is not called and does not move, no reload is
\* scheduled, and (unless the batch also carries a login success) the
\* in-memory session and the persisted tokens stay as they were.
C21_LogoutDropped ==
  /\ [](\A i \in 1..Len(processed) :
          FailureThenLogout(batches[processed[i].batch]) => processed[i].type # "logout")
  /\ [][(Draining /\ FailureThenLogout(CurrentBatch)) =>
          /\ logoutCalls' = logoutCalls /\ lo' = lo /\ reloads' = reloads
          /\ (~HasType(CurrentBatch, "loginSuccess") =>
                /\ UNCHANGED sessVars
                /\ store'[SECURE_KEYS.refreshToken] = store[SECURE_KEYS.refreshToken]
                /\ store'[AccessKey] = store[AccessKey])]_vars

\* a batch of a PIN login failure followed by a logout was processed to its
\* end with the session in place
C21_Witness ==
  /\ bq.pc = "idle" /\ Len(batches) = 1
  /\ Len(batches[1]) = 2
  /\ batches[1][1].m.type = "pinLoginFailure" /\ batches[1][2].m.type = "logout"
  /\ Len(processed) = 1 /\ processed[1].type = "pinLoginFailure"
  /\ hasStoredSession /\ store[SECURE_KEYS.refreshToken] = "RT1" /\ logoutCalls = 0

\* C22: a batch without login failure and without getDeviceInfo request
\* schedules exactly one reload, and only once every message of the batch
\* has been processed.
C22_ReloadOnce ==
  \A k \in 1..Len(batches) :
    (~hasLoginFailure(batches[k]) /\ ~hasDeviceInfoRequest(batches[k]) /\ Len(batches) = 1) =>
      /\ Draining => reloads = 0
      /\ bq.pc = "idle" => reloads = 1

\* message i (by arrival) is a member of the k-th batch processed
InBatch(i, k) ==
  k \in 1..Len(batches) /\ \E j \in 1..Len(batches[k]) : batches[k][j].id = i

\* message i is waiting in messageQueue
InQueue(i) == \E j \in 1..Len(messageQueue) : messageQueue[j].id = i

\* C23: messages are processed one at a time, batch after batch and in
\* arrival order inside a batch; a message that arrives while a batch is
\* being processed is not part of that batch, waits in the queue, and is a
\* member of the next batch.
C23_NextBatch ==
  /\ \A i, j \in 1..Len(processed) :
       i < j => \/ processed[i].batch < processed[j].batch
                \/ processed[i].batch = processed[j].batch /\ processed[i].id < processed[j].id
  /\ \A i \in 1..Len(accepted) :
       accepted[i].at \notin {"idle", "timer"} =>
         /\ ~InBatch(i, accepted[i].due - 1)
         /\ IF Len(batches) >= accepted[i].due THEN InBatch(i, accepted[i].due) ELSE InQueue(i)

\* C24: a message that arrives while no batch is being processed (it arms
\* the timer, or arrives inside the window) is a member of the batch that
\* window's timer passes to processMessageQueue; no message is a member of
\* two batches, and once the queue is idle every such message has been a
\* member of one.
C24_SameBatch ==
  \A i \in 1..Len(accepted) :
    accepted[i].at \in {"idle", "timer"} =>
      /\ Len(batches) >= accepted[i].due => InBatch(i, accepted[i].due)
      /\ Cardinality({k \in 1..Len(batches) : InBatch(i, k)}) <= 1
      /\ bq.pc = "idle" => \E k \in 1..Len(batches) : InBatch(i, k)

\* no session manager operation is in progress
ManagerIdle ==
  /\ su.pc = "done" /\ lo.pc \in {"idle", "done"} /\ fg.pc \in {"idle", "done"}
  /\ li.pc \in {"idle", "done"} /\ bq.pc \in {"idle", "timer"}

\* C25: whenever no session manager operation is in progress,
\* hasStoredSession is true exactly when the secure store holds a refresh
\* token.
C25_StoredSessionExact ==
  ManagerIdle => (hasStoredSession <=> Truthy(store[SECURE_KEYS.refreshToken]))

\* the in-memory Session is empty (hasStoredSession, token, accessToken, user)
SessionRevoked ==
  ~hasStoredSession /\ token = Null /\ accessToken = Null /\ user = NullUser

C27_ForegroundAsStartup ==
  /\ [][(fg.pc = "check" /\ fg'.pc = "done") =>
          /\ accessToken' = fg.at /\ token' = fg.rt
          /\ user' # NullUser /\ Len(bcLog') = Len(bcLog) + 1]_vars
  /\ [][(fg.pc = "persist" /\ fg'.pc = "done" /\ keyOk /\ ~UserDataThrows(fg.res)) =>
          /\ store'[AccessKey] = NewAccessToken(fg.res)
          /\ accessToken' = NewAccessToken(fg.res) /\ token' = fg.rt
          /\ Len(bcLog') = Len(bcLog) + 1]_vars
  /\ [][(fg.pc = "refresh" /\ fg'.pc = "done") =>
          /\ store'[SECURE_KEYS.refreshToken] = Null /\ store'[AccessKey] = Null
          /\ ~hasStoredSession' /\ token' = Null /\ accessToken' = Null
          /\ user' = NullUser]_vars
  /\ [][(fg.pc = "readAT" /\ fg'.pc # "readAT" /\ Truthy(fg.rt) /\ ~Truthy(fg'.at)) =>
          netCalls'.refresh = netCalls.refresh + 1]_vars

\* C28: reInitializeTokenSync starts only in a step that takes appState from
\* background to active after the startup sequence has made its terminal
\* update (isCompleted), and no step of it changes initState.step,
\* initState.ready or ready.
C28_ForegroundKeepsMachine ==
  /\ [][(fg.pc \in {"idle", "done"} /\ fg'.pc \notin {"idle", "done"}) =>
          /\ appState = "background" /\ appState' = "active"
          /\ isCompleted]_vars
  /\ [][fg' # fg => (initState' = initState /\ ready' = ready)]_vars

\* a re-validation has run to its end after the watchdog finished the
\* startup, and issued a token-set broadcast
C28_Witness ==
  /\ fg.pc = "done" /\ fgRuns = 1 /\ appState = "active"
  /\ initState.step = "timeout" /\ ready /\ Len(bcLog) > 0

\* C29: every identifier a getDeviceInfo call has returned is the one now
\* persisted under SECURE_KEYS.deviceId, so all calls return the same one.
C29_DeviceIdStable ==
  \A i \in 1..Len(devReturned) :
     devReturned[i].id # "throws" => devReturned[i].id = store[SECURE_KEYS.deviceId]

\* C30: in a PIN login whose digest could not be computed (hashPin fell back
\* to simpleHash) no request is sent to /auth/pin-login.
C30_FailClosed ==
  \A i, j \in 1..Len(loginLog) :
     ~(loginLog[i] = "simple" /\ loginLog[j] = "POST /auth/pin-login")

\* the message whose handler is running
CurrentMessage == Head(bq.rest).m

\* this step ends a completeLogin call that returns
CompleteLoginReturns == bq.pc \in {"persist", "email"} /\ bq'.cl = "returned"

\* C31: when completeLogin returns, the payload's refresh token is
\* persisted and is the in-memory token, the payload's user is the in-memory
\* user, hasStoredSession is true and the user's email is the persisted last
\* email; from its call to its return no login, check or refresh request is
\* made and nothing is broadcast or queued for the WebViews.
C31_CompleteLoginEffect ==
  /\ [][CompleteLoginReturns =>
          /\ store'[SECURE_KEYS.refreshToken] = CurrentMessage.refreshToken
          /\ token' = CurrentMessage.refreshToken
          /\ user' = CompletePayload(CurrentMessage).user
          /\ hasStoredSession'
          /\ store'[SECURE_KEYS.lastEmail] = user'.email]_vars
  /\ [][bq.pc \in {"persist", "email"} =>
          UNCHANGED <<netCalls, loginLog, li, injected, pendingTokenBroadcasts, bcLog>>]_vars

\* an RN_UPDATE_AUTH_STATE message without a user name has replaced user
\* A's session by the reported one
C31_Witness ==
  /\ bq.cl = "returned" /\ Len(processed) = 1
  /\ processed[1].type = "RN_UPDATE_AUTH_STATE"
  /\ store[SECURE_KEYS.refreshToken] = "RT2" /\ token = "RT2"
  /\ user = [name |-> "b@c.com", email |-> "b@c.com"]
  /\ hasStoredSession /\ store[SECURE_KEYS.lastEmail] = "b@c.com"
  /\ accessToken = "AT3"

\* C39: when completeLogin returns, the in-memory access token is the
\* payload's access token, or absent when the payload has none.
C39_NoStaleAccessToken ==
  [][CompleteLoginReturns =>
       accessToken' = (IF Truthy(CompletePayload(CurrentMessage).accessToken)
                         THEN CompletePayload(CurrentMessage).accessToken
                         ELSE Null)]_vars

\* C38: whenever no session manager operation is in progress, the in-memory
\* user is present exactly when the in-memory refresh token is, and an
\* in-memory access token is present only with the refresh token.
C38_SessionAllOrNothing ==
  ManagerIdle =>
    /\ (user # NullUser <=> Truthy(token))
    /\ (Truthy(accessToken) => Truthy(token))

\* C36: when pinLogin or biometricLogin returns success false, the persisted
\* refresh token and last email and the in-memory token, accessToken, user
\* and hasStoredSession are as they were when the operation was called.
C36_FailedLoginChangesNothing ==
  [][(li.pc # "done" /\ li'.pc = "done" /\ ~li'.result.success) =>
       SessionAtCall' = li'.before]_vars

\* the broadcasts that were to reach WebView w: those made while w was
\* registered and on which w's injectJavaScript did not throw
RECURSIVE ReachedBy(_, _)
ReachedBy(log, w) ==
  IF log = <<>> THEN 0
  ELSE ReachedBy(Tail(log), w) + (IF w \in Head(log).refs \ Head(log).threw THEN 1 ELSE 0)

\* C32: every WebView holds exactly one script for each broadcast that was
\* made while it was registered and on which its own injection did not
\* throw, whatever was registered or unregistered between the broadcasts and
\* whichever other WebViews threw.
C32_BroadcastReachesRegistered ==
  \A w \in WebViews : Len(injected[w]) = ReachedBy(issued, w)

\* three broadcasts: w1 threw on the first while w2 got it, w2 was
\* unregistered for the second, both got the third
C32_Witness ==
  /\ Len(issued) = 3
  /\ issued[1] = [refs |-> {"w1", "w2"}, threw |-> {"w1"}]
  /\ issued[2] = [refs |-> {"w1"}, threw |-> {}]
  /\ issued[3] = [refs |-> {"w1", "w2"}, threw |-> {}]
  /\ Len(injected["w1"]) = 2 /\ Len(injected["w2"]) = 2

\* logout has called broadcastLogout
LogoutBroadcastMade == lo.pc \in {"del1", "del2", "done"}

\* C33: once logout has broadcast the logout message, no token-set message
\* with an access token handed to broadcastSetTokens before it is injected
\* into any WebView.
C33_LogoutFinalForWebViews ==
  [][LogoutBroadcastMade =>
       \A w \in WebViews : TokenIds(injected'[w]) = TokenIds(injected[w])]_vars

\* checkTokenValid or refreshAccessToken of the foreground re-validation
\* returns after logout has completed
ReturnsAfterLogout == lo.pc = "done" /\ fg.pc \in {"check", "refresh"} /\ fg' # fg

\* C34: when checkTokenValid or refreshAccessToken of a foreground
\* re-validation returns after a logout completed during the call, no
\* setSecureItem of an access token is called, accessToken and user stay
\* absent and no token-set broadcast is made.
C34_LogoutWinsOverForeground ==
  [][ReturnsAfterLogout =>
       /\ fg'.pc # "persist"
       /\ ~Truthy(accessToken') /\ user' = NullUser
       /\ bcLog' = bcLog]_vars

\* refreshAccessToken calls in flight, as the refresh tokens they carry
RefreshesInFlight ==
  (IF su.pc \in {"refresh", "refreshOnly"} THEN <<su.rt>> ELSE <<>>)
    \o (IF fg.pc = "refresh" THEN <<fg.rt>> ELSE <<>>)

\* C35: no two refreshAccessToken calls are in flight for the same refresh
\* token, whether issued by the startup sequence or by a foreground
\* re-validation.
C35_NoOverlappingRefresh ==
  \A i, j \in 1..Len(RefreshesInFlight) :
    i # j => RefreshesInFlight[i] # RefreshesInFlight[j]

\* logout ends: it returns or an exception leaves it
LogoutEnds == lo.pc \notin {"idle", "done", "threw"} /\ lo'.pc \in {"done", "threw"}

\* C37: logout returns normally with user, token, accessToken,
\* hasStoredSession and pinEnabled cleared, also when its read of the refresh
\* token or one of its deletes fails.
C37_LogoutSurvivesStoreFailure ==
  [][LogoutEnds =>
       /\ lo'.pc = "done"
       /\ user' = NullUser /\ ~Truthy(token') /\ ~Truthy(accessToken')
       /\ ~hasStoredSession' /\ ~pinEnabled']_vars

\* the startup's setSecureItem(SECURE_KEYS.accessToken, newAccessToken) after a
\* successful refresh with an access token in the answer ends
StartupPersistEnds ==
  /\ su.pc \in {"persist", "persistOnly"} /\ su' # su
  /\ Truthy(NewAccessToken(su.res))

\* C40: the access token the startup persists after a successful refresh is
\* what a read of the access-token key returns afterwards, as for every
\* other key of the secure store.
C40_AccessTokenRoundTrip ==
  [][StartupPersistEnds =>
       /\ ~GetRejects(AccessKey)
       /\ store'[AccessKey] = NewAccessToken(su.res)]_vars

====
